---- MODULE Spec2Model ----
(***************************************************************************)
(* Multi-source version resolution (Hekate / Asclepius).                   *)
(*                                                                         *)
(* Strings are sequences of one-character strings, so that splitting,      *)
(* prefix stripping and integer conversion are computed character by       *)
(* character as the Python code computes them.                             *)
(***************************************************************************)
EXTENDS Integers, Sequences, FiniteSets, TLC

VARIABLES
    \* --- UpdateFinder.find_latest (one call in flight at a time) ---
    methods,          \* self._methods: the registry, in the order the loader appended
    pc,               \* position of the call: "idle", "can_handle", "get_version", "decide", "returned"
    idx,              \* position of the for-loop over self._methods (1-based)
    results,          \* the local list `results`: references (method positions) to returned dicts
    objs,             \* the dict object each strategy returned in this call (field values)
    current_version,  \* the caller's argument
    log,              \* levels of the logger calls made by this call, in order
    ret,              \* what the call handed back to its caller
    calls,            \* the strategy methods this call invoked, in order, with their outcomes
    compared,         \* argument pairs find_latest handed to VersionCheck.compare, in order
    \* --- the strategy whose get_version is running ---
    software,         \* the software_name argument
    spc,              \* position inside get_version ("off" when none is running)
    sq,               \* position of the strategy's own loop (query or language, 1-based)
    sres,             \* the local dict `result`
    sloc,             \* the other locals of get_version
    slog,             \* levels of the logger calls the strategy made, in order
    reqs,             \* requests handed to the HTTP client, in order
    \* --- UpdateFinder._load_methods ---
    lpc,              \* "off", "constructing" (before the loader ran) or "loaded"
    listing,          \* os.listdir(methods_dir), in the order the filesystem gives it
    config_methods,   \* self._config['methods']
    broken,           \* modules whose import raises ImportError or AttributeError
    llog,             \* logger calls of the loader, in order
    \* --- two find_latest calls in flight on one UpdateFinder ---
    tpc,              \* position of each call
    tidx,             \* position of each call's for-loop
    tresults,         \* the `results` list of each frame: references into tobjs
    tobjs,            \* the dicts the strategies returned, by <<call, method position>>
    tcur,             \* each caller's current_version argument
    tret,             \* what each call handed back
    tout,             \* what each strategy did for each call, in registry order
    \* --- pure version functions applied to drawn inputs ---
    vpc,              \* position of the pure-function run
    va, vb, vc,       \* input version strings
    vout              \* outputs of the functions applied

vars == <<methods, pc, idx, results, objs, current_version, log, ret, calls, compared,
          software, spc, sq, sres, sloc, slog, reqs,
          lpc, listing, config_methods, broken, llog,
          tpc, tidx, tresults, tobjs, tcur, tret, tout,
          vpc, va, vb, vc, vout>>

finderVars == <<methods, pc, idx, results, objs, current_version, log, ret, calls, compared>>
strategyVars == <<software, spc, sq, sres, sloc, slog, reqs>>
versionVars == <<vpc, va, vb, vc, vout>>
loaderVars == <<lpc, listing, config_methods, broken, llog>>
pairVars == <<tpc, tidx, tresults, tobjs, tcur, tret, tout>>
nonFinderVars == <<strategyVars, loaderVars, pairVars, versionVars>>
nonVersionVars == <<finderVars, strategyVars, loaderVars, pairVars>>

-----------------------------------------------------------------------------
(* Bounds *)

MaxLen1 == 5      \* longest input of the one-argument functions
MaxLen2 == 3      \* longest input of compare_versions, pairs
MaxLen3 == 2      \* longest input of compare_versions, triples
MaxTokens == 4    \* most fragments joined into a text for extract_version_numbers

Chars1 == {"v", "V", "0", "1", ".", "-"}
Chars2 == {"v", "0", "1", "2", "."}

RECURSIVE StrsUpTo(_, _)
StrsUpTo(chars, n) ==
    IF n = 0 THEN {<<>>}
    ELSE LET shorter == StrsUpTo(chars, n - 1)
         IN  shorter \cup {Append(s, c) : s \in shorter, c \in chars}

-----------------------------------------------------------------------------
(* Python string primitives *)

DigitChars == {"0", "1", "2", "3", "4", "5", "6", "7", "8", "9"}

IsDigit(c) == c \in DigitChars

DigitVal(c) ==
    CASE c = "0" -> 0 [] c = "1" -> 1 [] c = "2" -> 2 [] c = "3" -> 3
      [] c = "4" -> 4 [] c = "5" -> 5 [] c = "6" -> 6 [] c = "7" -> 7
      [] c = "8" -> 8 [] c = "9" -> 9

\* str.lower() on one character
UpperLetters ==
    <<"A", "B", "C", "D", "E", "F", "G", "H", "I", "J", "K", "L", "M",
      "N", "O", "P", "Q", "R", "S", "T", "U", "V", "W", "X", "Y", "Z">>

LowerLetters ==
    <<"a", "b", "c", "d", "e", "f", "g", "h", "i", "j", "k", "l", "m",
      "n", "o", "p", "q", "r", "s", "t", "u", "v", "w", "x", "y", "z">>

LowerChar(c) ==
    IF \E k \in 1..26 : UpperLetters[k] = c
    THEN LowerLetters[CHOOSE k \in 1..26 : UpperLetters[k] = c]
    ELSE c

\* \w, \s of the re module on the characters used here
IsWord(c) ==
    \/ IsDigit(c)
    \/ c = "_"
    \/ \E k \in 1..26 : UpperLetters[k] = c \/ LowerLetters[k] = c

IsSpace(c) == c = " "

lower(s) == [k \in 1..Len(s) |-> LowerChar(s[k])]

startswith(s, prefix) ==
    /\ Len(s) >= Len(prefix)
    /\ SubSeq(s, 1, Len(prefix)) = prefix

CountIn(seq, x) == Cardinality({n \in 1..Len(seq) : seq[n] = x})

InSeq(seq, x) == \E n \in 1..Len(seq) : seq[n] = x

\* variant: empty parts are dropped, as str.split() without a separator does
RECURSIVE SplitDroppingEmpty(_, _)
SplitDroppingEmpty(s, sep) ==
    IF Len(s) = 0 THEN <<>>
    ELSE IF \A k \in 1..Len(s) : s[k] # sep THEN <<s>>
    ELSE LET k == CHOOSE k \in 1..Len(s) :
                     s[k] = sep /\ \A j \in 1..(k - 1) : s[j] # sep
         IN  (IF k = 1 THEN <<>> ELSE <<SubSeq(s, 1, k - 1)>>)
                 \o SplitDroppingEmpty(SubSeq(s, k + 1, Len(s)), sep)

\* str.split(sep) for a one-character separator: always at least one part
RECURSIVE split(_, _)
split(s, sep) ==
    IF \A k \in 1..Len(s) : s[k] # sep THEN <<s>>
    ELSE LET k == CHOOSE k \in 1..Len(s) :
                     s[k] = sep /\ \A j \in 1..(k - 1) : s[j] # sep
         IN  <<SubSeq(s, 1, k - 1)>> \o split(SubSeq(s, k + 1, Len(s)), sep)

\* sep.join(parts)
RECURSIVE join(_, _)
join(parts, sep) ==
    IF Len(parts) = 0 THEN <<>>
    ELSE IF Len(parts) = 1 THEN parts[1]
    ELSE parts[1] \o <<sep>> \o join(Tail(parts), sep)

AllDigits(s) == Len(s) > 0 /\ \A k \in 1..Len(s) : IsDigit(s[k])

RECURSIVE DigitsVal(_)
DigitsVal(s) ==
    IF Len(s) = 0 THEN 0
    ELSE 10 * DigitsVal(SubSeq(s, 1, Len(s) - 1)) + DigitVal(s[Len(s)])

\* int(part) succeeds on an optionally signed, non-empty run of digits
IntParses(part) ==
    \/ AllDigits(part)
    \/ Len(part) > 1 /\ part[1] \in {"-", "+"} /\ AllDigits(Tail(part))

IntOf(part) ==
    IF AllDigits(part) THEN DigitsVal(part)
    ELSE IF part[1] = "-" THEN 0 - DigitsVal(Tail(part))
    ELSE DigitsVal(Tail(part))

\* re.match(r'(\d+)', part): the leading digit run, <<>> when there is none
RECURSIVE LeadingDigits(_)
LeadingDigits(part) ==
    IF Len(part) = 0 \/ ~IsDigit(part[1]) THEN <<>>
    ELSE <<part[1]>> \o LeadingDigits(Tail(part))

-----------------------------------------------------------------------------
(* asclepius/utils/version.py *)

\* variant: the `len(parts) > 1` guard is missing
RECURSIVE StripEveryTrailingZeroPart(_)
StripEveryTrailingZeroPart(parts) ==
    IF Len(parts) > 0 /\ parts[Len(parts)] = <<"0">>
    THEN StripEveryTrailingZeroPart(SubSeq(parts, 1, Len(parts) - 1))
    ELSE parts

\* variant: `if` written for `while`, one trailing zero part is dropped
StripOneTrailingZeroPart(parts) ==
    IF Len(parts) > 1 /\ parts[Len(parts)] = <<"0">>
    THEN SubSeq(parts, 1, Len(parts) - 1)
    ELSE parts

\* while len(parts) > 1 and parts[-1] == '0': parts = parts[:-1]
RECURSIVE StripTrailingZeroParts(_)
StripTrailingZeroParts(parts) ==
    IF Len(parts) > 1 /\ parts[Len(parts)] = <<"0">>
    THEN StripTrailingZeroParts(SubSeq(parts, 1, Len(parts) - 1))
    ELSE parts

StripVPrefix(version) ==
    IF startswith(lower(version), <<"v">>) THEN Tail(version) ELSE version

normalize_version(version) ==
    join(StripTrailingZeroParts(split(StripVPrefix(version), ".")), ".")

ParsePart(part) ==
    IF IntParses(part) THEN IntOf(part)
    ELSE IF LeadingDigits(part) # <<>> THEN DigitsVal(LeadingDigits(part))
    ELSE 0

parse_version(version) ==
    LET parts == split(normalize_version(version), ".")
    IN  [k \in 1..Len(parts) |-> ParsePart(parts[k])]

Max(x, y) == IF x >= y THEN x ELSE y

\* variant: the shorter tuple is left as it is
PadNothing(components, length) == components

\* v + (0,) * (length - len(v))
PadZeros(components, length) ==
    [k \in 1..length |-> IF k <= Len(components) THEN components[k] ELSE 0]

\* variant: `<=` written for `<`
RECURSIVE CompareComponentsLe(_, _)
CompareComponentsLe(v1, v2) ==
    IF Len(v1) = 0 \/ Len(v2) = 0 THEN 0
    ELSE IF v1[1] <= v2[1] THEN -1
    ELSE IF v1[1] > v2[1] THEN 1
    ELSE CompareComponentsLe(Tail(v1), Tail(v2))

\* variant: no early return, the last difference decides
RECURSIVE CompareLastDifference(_, _)
CompareLastDifference(v1, v2) ==
    IF Len(v1) = 0 \/ Len(v2) = 0 THEN 0
    ELSE LET rest == CompareLastDifference(Tail(v1), Tail(v2))
         IN  IF rest # 0 THEN rest
             ELSE IF v1[1] < v2[1] THEN -1
             ELSE IF v1[1] > v2[1] THEN 1
             ELSE 0

\* for c1, c2 in zip(v1, v2): first strict difference decides
RECURSIVE CompareComponents(_, _)
CompareComponents(v1, v2) ==
    IF Len(v1) = 0 \/ Len(v2) = 0 THEN 0
    ELSE IF v1[1] < v2[1] THEN -1
    ELSE IF v1[1] > v2[1] THEN 1
    ELSE CompareComponents(Tail(v1), Tail(v2))

compare_versions(version1, version2) ==
    LET v1 == parse_version(version1)
        v2 == parse_version(version2)
        length == Max(Len(v1), Len(v2))
    IN  CompareComponents(PadZeros(v1, length), PadZeros(v2, length))

\* variant: "not older" taken for "newer"
is_newer_or_same_version(current, latest) == compare_versions(latest, current) >= 0

is_newer_version(current, latest) == compare_versions(latest, current) > 0

-----------------------------------------------------------------------------
(* asclepius/utils/version.py: extract_version_numbers *)

\* characters of a word, for the literal parts of the patterns
Word(w) ==
    CASE w = "version" -> <<"v", "e", "r", "s", "i", "o", "n">>
      [] w = "version:" -> <<"v", "e", "r", "s", "i", "o", "n", ":">>
      [] w = "(build" -> <<"(", "b", "u", "i", "l", "d">>

At(t, i) == IF i >= 1 /\ i <= Len(t) THEN t[i] ELSE "<end>"

DigitAt(t, i) == IsDigit(At(t, i))

\* last position of the digit run that starts at i
RECURSIVE DigitRunEnd(_, _)
DigitRunEnd(t, i) == IF DigitAt(t, i + 1) THEN DigitRunEnd(t, i + 1) ELSE i

\* first position at or after i that holds no whitespace
RECURSIVE SkipSpaces(_, _)
SkipSpaces(t, i) == IF IsSpace(At(t, i)) THEN SkipSpaces(t, i + 1) ELSE i

\* ends of the successive (?:\.\d+) groups that follow position e
RECURSIVE GroupEnds(_, _)
GroupEnds(t, e) ==
    IF At(t, e + 1) = "." /\ DigitAt(t, e + 2)
    THEN LET e2 == DigitRunEnd(t, e + 2) IN <<e2>> \o GroupEnds(t, e2)
    ELSE <<>>

\* literal text under re.IGNORECASE
LiteralAt(t, i, w) ==
    /\ i >= 1
    /\ i + Len(w) - 1 <= Len(t)
    /\ lower(SubSeq(t, i, i + Len(w) - 1)) = w

\* (?<!\w), and \b in front of a word character
NoWordBefore(t, i) == i = 1 \/ ~IsWord(At(t, i - 1))

\* \b behind a word character
NoWordAfter(t, e) == e = Len(t) \/ ~IsWord(At(t, e + 1))

NoMatch == [from |-> 0, to |-> 0, stop |-> 0]

\* the group is t[from..to], the whole match ends at stop
Match(from, to, stop) == [from |-> from, to |-> to, stop |-> stop]

\* \d+(?:\.\d+)+ greedy from position k, nothing required behind it
DottedAt(t, k) ==
    IF ~DigitAt(t, k) THEN NoMatch
    ELSE LET groups == GroupEnds(t, DigitRunEnd(t, k))
         IN  IF Len(groups) = 0 THEN NoMatch
             ELSE Match(k, groups[Len(groups)], groups[Len(groups)])

\* r'version\s+(\d+(?:\.\d+)+)' and r'version:\s+(\d+(?:\.\d+)+)'
KeywordAt(t, i, w) ==
    IF LiteralAt(t, i, w) /\ IsSpace(At(t, i + Len(w)))
    THEN DottedAt(t, SkipSpaces(t, i + Len(w)))
    ELSE NoMatch

\* r'\bv(\d+(?:\.\d+)+)\b': the longest run of groups with a boundary behind
VPrefixedAt(t, i) ==
    IF ~(LowerChar(At(t, i)) = "v" /\ NoWordBefore(t, i) /\ DigitAt(t, i + 1))
    THEN NoMatch
    ELSE LET groups == GroupEnds(t, DigitRunEnd(t, i + 1))
             n == Len(groups)
         IN  IF n = 0 THEN NoMatch
             ELSE IF NoWordAfter(t, groups[n]) THEN Match(i + 1, groups[n], groups[n])
             ELSE IF n >= 2 THEN Match(i + 1, groups[n - 1], groups[n - 1])
             ELSE NoMatch

\* r'(?<!\w)(\d+\.\d+(?:\.\d+)*)'
StandaloneAt(t, i) ==
    IF NoWordBefore(t, i) THEN DottedAt(t, i) ELSE NoMatch

\* r'(\d+\.\d+(?:\.\d+)*)\s*\(build\s+\d+\)'
BuildAt(t, i) ==
    LET m == DottedAt(t, i)
        b == SkipSpaces(t, m.to + 1)
        w == Word("(build")
        d == SkipSpaces(t, b + Len(w))
    IN  IF m = NoMatch THEN NoMatch
        ELSE IF /\ LiteralAt(t, b, w)
                /\ IsSpace(At(t, b + Len(w)))
                /\ DigitAt(t, d)
                /\ At(t, DigitRunEnd(t, d) + 1) = ")"
             THEN Match(i, m.to, DigitRunEnd(t, d) + 1)
             ELSE NoMatch

\* r'(?<!\w)(\d+\.\d+)(?!\.\d+)(?!\d)'
MajorMinorAt(t, i) ==
    IF ~(NoWordBefore(t, i) /\ DigitAt(t, i)) THEN NoMatch
    ELSE LET e1 == DigitRunEnd(t, i)
             e2 == DigitRunEnd(t, e1 + 2)
         IN  IF /\ At(t, e1 + 1) = "."
                /\ DigitAt(t, e1 + 2)
                /\ ~(At(t, e2 + 1) = "." /\ DigitAt(t, e2 + 2))
             THEN Match(i, e2, e2)
             ELSE NoMatch

NumPatterns == 6

\* the list `patterns`, by position
PatternAt(p, t, i) ==
    CASE p = 1 -> KeywordAt(t, i, Word("version"))
      [] p = 2 -> VPrefixedAt(t, i)
      [] p = 3 -> StandaloneAt(t, i)
      [] p = 4 -> KeywordAt(t, i, Word("version:"))
      [] p = 5 -> BuildAt(t, i)
      [] p = 6 -> MajorMinorAt(t, i)

\* re.findall(pattern, text, re.IGNORECASE): leftmost matches, not overlapping
RECURSIVE findall(_, _, _)
findall(p, t, pos) ==
    IF pos > Len(t) THEN <<>>
    ELSE LET m == PatternAt(p, t, pos)
         IN  IF m = NoMatch THEN findall(p, t, pos + 1)
             ELSE <<SubSeq(t, m.from, m.to)>> \o findall(p, t, m.stop + 1)

\* for pattern in patterns: versions.extend(matches)
RECURSIVE ExtendAll(_, _)
ExtendAll(matches, p) ==
    IF p > Len(matches) THEN <<>>
    ELSE matches[p] \o ExtendAll(matches, p + 1)

\* variant: a version is compared with the last one kept only
RECURSIVE DedupeAdjacent(_, _)
DedupeAdjacent(versions, unique) ==
    IF Len(versions) = 0 THEN unique
    ELSE IF Len(unique) > 0 /\ unique[Len(unique)] = versions[1]
         THEN DedupeAdjacent(Tail(versions), unique)
         ELSE DedupeAdjacent(Tail(versions), Append(unique, versions[1]))

\* for version in versions: if version not in unique_versions: append
RECURSIVE Dedupe(_, _)
Dedupe(versions, unique) ==
    IF Len(versions) = 0 THEN unique
    ELSE IF \E n \in 1..Len(unique) : unique[n] = versions[1]
         THEN Dedupe(Tail(versions), unique)
         ELSE Dedupe(Tail(versions), Append(unique, versions[1]))

PatternMatches(text) == [p \in 1..NumPatterns |-> findall(p, text, 1)]

extract_version_numbers(text) == Dedupe(ExtendAll(PatternMatches(text), 1), <<>>)

-----------------------------------------------------------------------------
(* hekate/utils/version.py (VersionCheck), as the specification describes it *)

\* Python None: a value that no string built from characters equals
None == <<"None">>

\* a Python list, kept apart from the strings and from None
PyList(items) == <<"list">> \o items

IsList(v) == Len(v) >= 1 /\ v[1] = "list"

\* VersionCheck.compare(a, ">", b): a missing side never counts as newer,
\* otherwise compare(a, b) > 0
VersionCheck_compare_gt(a, b) ==
    IF a = None \/ b = None THEN FALSE
    ELSE is_newer_version(b, a)

\* VersionCheck.find_higher(results): stable max-scan over the list; the
\* first dict holding the maximal latest_version is handed back
RECURSIVE ScanHigher(_, _, _)
ScanHigher(refs, heap, best) ==
    IF Len(refs) = 0 THEN best
    ELSE IF VersionCheck_compare_gt(heap[refs[1]].latest_version, heap[best].latest_version)
         THEN ScanHigher(Tail(refs), heap, refs[1])
         ELSE ScanHigher(Tail(refs), heap, best)

find_higher(refs, heap) == ScanHigher(Tail(refs), heap, refs[1])

-----------------------------------------------------------------------------
(* hekate/update_finder.py: UpdateFinder.find_latest *)

NumMethods == 3                      \* strategies held by self._methods

Methods == 1..NumMethods

V(a, b) == <<a, ".", b>>

Str3(a, b, c) == <<a, ".", b, ".", c>>

\* versions a strategy may report
FoundVersions == {V("2", "1"), V("2", "3"), V("2", "3") \o <<".", "0">>}

\* values the caller may pass as current_version
CurrentVersions == {None, <<>>, V("2", "0"), V("2", "3"), V("2", "4")}

\* the dict a strategy builds before it fills in latest_version
NewResult(latest) ==
    [current_version |-> None, latest_version |-> latest, update_found |-> FALSE]

\* what get_version may hand back as a dict
StrategyDicts == {NewResult(v) : v \in FoundVersions \cup {None, <<>>}}

\* variant: only a missing latest_version is rejected, an empty one is kept
TruthyNotNone(latest) == latest # None

\* `result and result.get('latest_version')`
Truthy(latest) == latest # None /\ latest # <<>> /\ latest # PyList(<<>>)

NoReturn == [kind |-> "pending", ref |-> 0]
ReturnNone == [kind |-> "None", ref |-> 0]
ReturnDict(k) == [kind |-> "dict", ref |-> k]
Raised == [kind |-> "raise", ref |-> 0]

\* one invocation of a strategy method and how it ended
Invoked(k, op, out) == [method |-> k, op |-> op, out |-> out]

\* the for-loop moves to the next method, or leaves the loop
NextMethod ==
    /\ idx' = idx + 1
    /\ pc' = IF idx + 1 > Len(methods) THEN "decide" ELSE "can_handle"

\* variant: results is kept on the finder and not emptied by the next call
find_latest_keeps_results ==
    /\ pc = "idle"
    /\ \E cv \in CurrentVersions : current_version' = cv
    /\ log' = <<"info">>
    /\ ret' = NoReturn
    /\ calls' = <<>>
    /\ compared' = <<>>
    /\ idx' = 1
    /\ pc' = IF Len(methods) = 0 THEN "decide" ELSE "can_handle"
    /\ UNCHANGED <<results, objs, methods, nonFinderVars>>

\* results = []; logger.info(...)
find_latest ==
    /\ pc = "idle"
    /\ \E cv \in CurrentVersions : current_version' = cv
    /\ results' = <<>>
    /\ objs' = <<>>
    /\ log' = <<"info">>
    /\ ret' = NoReturn
    /\ calls' = <<>>
    /\ compared' = <<>>
    /\ idx' = 1
    /\ pc' = IF Len(methods) = 0 THEN "decide" ELSE "can_handle"
    /\ UNCHANGED <<methods, nonFinderVars>>

\* variant: the `continue` is missing, a declining strategy is asked anyway
can_handle_false_falls_through ==
    /\ pc = "can_handle"
    /\ calls' = Append(calls, Invoked(idx, "can_handle", "false"))
    /\ pc' = "get_version"
    /\ UNCHANGED <<idx, results, objs, current_version, log, ret, methods, compared, nonFinderVars>>

\* if not method.can_handle(software_name): continue
can_handle_false ==
    /\ pc = "can_handle"
    /\ calls' = Append(calls, Invoked(idx, "can_handle", "false"))
    /\ NextMethod
    /\ UNCHANGED <<results, objs, current_version, log, ret, methods, compared, nonFinderVars>>

can_handle_true ==
    /\ pc = "can_handle"
    /\ pc' = "get_version"
    /\ calls' = Append(calls, Invoked(idx, "can_handle", "true"))
    /\ UNCHANGED <<idx, results, objs, current_version, log, ret, methods, compared, nonFinderVars>>

\* variant: no isolation boundary, the fault leaves find_latest
OnExceptionPropagates ==
    /\ ret' = Raised
    /\ pc' = "returned"
    /\ UNCHANGED <<idx, results, objs, current_version, log>>

\* except Exception as e: logger.exception(...), then the loop goes on
OnException ==
    /\ log' = Append(log, "exception")
    /\ NextMethod
    /\ UNCHANGED <<results, objs, current_version, ret>>

can_handle_raises ==
    /\ pc = "can_handle"
    /\ calls' = Append(calls, Invoked(idx, "can_handle", "raise"))
    /\ OnException
    /\ UNCHANGED <<methods, compared, nonFinderVars>>

get_version_raises ==
    /\ pc = "get_version"
    /\ calls' = Append(calls, Invoked(idx, "get_version", "raise"))
    /\ OnException
    /\ UNCHANGED <<methods, compared, nonFinderVars>>

\* result = method.get_version(...) gave None
get_version_none ==
    /\ pc = "get_version"
    /\ calls' = Append(calls, Invoked(idx, "get_version", "None"))
    /\ NextMethod
    /\ UNCHANGED <<results, objs, current_version, log, ret, methods, compared, nonFinderVars>>

\* variant: results.insert(0, result)
CollectInFront(list, k) == <<k>> \o list

\* results.append(result)
Collect(list, k) == Append(list, k)

\* result = method.get_version(...) gave the dict d: kept when its
\* latest_version is truthy
TakeDict(d) ==
    /\ objs' = objs @@ (idx :> d)
    /\ IF Truthy(d.latest_version)
       THEN /\ results' = Collect(results, idx)
            /\ log' = Append(log, "debug")
       ELSE UNCHANGED <<results, log>>
    /\ calls' = Append(calls, Invoked(idx, "get_version", "dict"))
    /\ NextMethod
    /\ UNCHANGED <<current_version, ret, methods, compared>>

get_version_dict ==
    /\ pc = "get_version"
    /\ \E d \in StrategyDicts : TakeDict(d)
    /\ UNCHANGED nonFinderVars

\* if not results: logger.warning(...); return None
decide_none ==
    /\ pc = "decide"
    /\ results = <<>>
    /\ log' = Append(log, "warning")
    /\ ret' = ReturnNone
    /\ pc' = "returned"
    /\ UNCHANGED <<idx, results, objs, current_version, calls, methods, compared, nonFinderVars>>

\* variant: a missing current_version is compared as version "0"
decide_best_defaulting ==
    /\ pc = "decide"
    /\ results # <<>>
    /\ LET best == find_higher(results, objs)
           cur == IF current_version = None THEN <<"0">> ELSE current_version
       IN  /\ objs' = [objs EXCEPT
                         ![best].current_version = current_version,
                         ![best].update_found =
                             VersionCheck_compare_gt(objs[best].latest_version, cur)]
           /\ compared' = Append(compared, <<objs[best].latest_version, cur>>)
           /\ ret' = ReturnDict(best)
    /\ pc' = "returned"
    /\ UNCHANGED <<idx, results, current_version, log, calls, methods, nonFinderVars>>

\* best_result = find_higher(results); the two assignments; return best_result
decide_best ==
    /\ pc = "decide"
    /\ results # <<>>
    /\ LET best == find_higher(results, objs)
       IN  /\ objs' = [objs EXCEPT
                         ![best].current_version = current_version,
                         ![best].update_found =
                             VersionCheck_compare_gt(objs[best].latest_version, current_version)]
           /\ compared' = Append(compared, <<objs[best].latest_version, current_version>>)
           /\ ret' = ReturnDict(best)
    /\ pc' = "returned"
    /\ UNCHANGED <<idx, results, current_version, log, calls, methods, nonFinderVars>>

\* the caller has the value; the finder is ready for the next call
call_done ==
    /\ pc = "returned"
    /\ pc' = "idle"
    /\ UNCHANGED <<idx, results, objs, current_version, log, ret, calls, methods, compared, nonFinderVars>>

\* no call has been made yet
FinderIdle ==
    /\ pc = "idle"
    /\ idx = 1
    /\ results = <<>>
    /\ objs = <<>>
    /\ current_version = None
    /\ log = <<>>
    /\ ret = NoReturn
    /\ calls = <<>>
    /\ compared = <<>>

\* no get_version is running
StrategyOff ==
    /\ software = <<>>
    /\ spc = "off"
    /\ sq = 0
    /\ sres = <<>>
    /\ sloc = <<>>
    /\ slog = <<>>
    /\ reqs = <<>>

\* the loader is not part of this specification
LoaderOff ==
    /\ lpc = "off"
    /\ listing = <<>>
    /\ config_methods = <<>>
    /\ broken = {}
    /\ llog = <<>>

\* no pair of concurrent calls is part of this specification
PairOff ==
    /\ tpc = <<>>
    /\ tidx = <<>>
    /\ tresults = <<>>
    /\ tobjs = <<>>
    /\ tcur = <<>>
    /\ tret = <<>>
    /\ tout = <<>>

\* the pure-function runs are not part of this specification
VersionOff ==
    /\ vpc = "off"
    /\ va = <<>>
    /\ vb = <<>>
    /\ vc = <<>>
    /\ vout = <<>>

\* an UpdateFinder holding NumMethods strategies of any kind
Init ==
    /\ methods = [k \in Methods |-> k]
    /\ FinderIdle
    /\ StrategyOff
    /\ LoaderOff
    /\ PairOff
    /\ VersionOff

Next ==
    \/ find_latest
    \/ can_handle_false
    \/ can_handle_true
    \/ can_handle_raises
    \/ get_version_raises
    \/ get_version_none
    \/ get_version_dict
    \/ decide_none
    \/ decide_best
    \/ call_done

Spec == Init /\ [][Next]_vars

\* every strategy call returns or raises, and find_latest, once out of the
\* loop, takes its step to the return (decide_none or decide_best); when the
\* next call is made is left to the caller
SpecLive ==
    /\ Init
    /\ [][Next]_vars
    /\ WF_vars(can_handle_false \/ can_handle_true \/ can_handle_raises)
    /\ WF_vars(get_version_raises \/ get_version_none \/ get_version_dict)
    /\ WF_pc(pc = "decide" /\ pc' = "returned")

-----------------------------------------------------------------------------
(* hekate/update_finder.py: UpdateFinder._load_methods *)

\* str.endswith(suffix)
endswith(s, suffix) ==
    /\ Len(s) >= Len(suffix)
    /\ SubSeq(s, Len(s) - Len(suffix) + 1, Len(s)) = suffix

\* _DEFAULT_CONFIG["methods"]
DEFAULT_METHODS == <<<<"g", "o", "o", "g", "l", "e">>, <<"w", "i", "k", "i", "p", "e", "d", "i", "a">>, <<"c", "v", "e", "_", "d", "e", "t", "a", "i", "l", "s">>, <<"p", "r", "o", "v", "i", "d", "e", "r">>>>

\* what os.listdir(methods_dir) holds: the package's files and its cache directory
MethodsDir ==
    { <<"_", "_", "i", "n", "i", "t", "_", "_", ".", "p", "y">>,
      <<"_", "_", "p", "y", "c", "a", "c", "h", "e", "_", "_">>,
      <<"a", "r", "c", "h", "m", "e", "t", "h", "o", "d", ".", "p", "y">>,
      <<"g", "o", "o", "g", "l", "e", ".", "p", "y">>,
      <<"p", "r", "o", "v", "i", "d", "e", "r", ".", "p", "y">>,
      <<"w", "i", "k", "i", "p", "e", "d", "i", "a", ".", "p", "y">> }

\* the classes inspect.getmembers finds in a module of the package, by name:
\* whether each is a subclass of ArchMethod and whether the module defines it
ModuleClasses(module_name) ==
    CASE module_name = <<"a", "r", "c", "h", "m", "e", "t", "h", "o", "d">> ->
            << [name |-> "ABC", archmethod |-> FALSE, own |-> FALSE],
               [name |-> "ArchMethod", archmethod |-> TRUE, own |-> TRUE],
               [name |-> "HTTPy", archmethod |-> FALSE, own |-> FALSE] >>
      [] module_name = <<"g", "o", "o", "g", "l", "e">> ->
            << [name |-> "ArchMethod", archmethod |-> TRUE, own |-> FALSE],
               [name |-> "BeautifulSoup", archmethod |-> FALSE, own |-> FALSE],
               [name |-> "GoogleMethod", archmethod |-> TRUE, own |-> TRUE],
               [name |-> "VersionCheck", archmethod |-> FALSE, own |-> FALSE] >>
      [] module_name = <<"p", "r", "o", "v", "i", "d", "e", "r">> ->
            << [name |-> "ArchMethod", archmethod |-> TRUE, own |-> FALSE],
               [name |-> "BeautifulSoup", archmethod |-> FALSE, own |-> FALSE],
               [name |-> "WebsiteStrategy", archmethod |-> TRUE, own |-> TRUE] >>
      [] module_name = <<"w", "i", "k", "i", "p", "e", "d", "i", "a">> ->
            << [name |-> "ArchMethod", archmethod |-> TRUE, own |-> FALSE],
               [name |-> "BeautifulSoup", archmethod |-> FALSE, own |-> FALSE],
               [name |-> "VersionCheck", archmethod |-> FALSE, own |-> FALSE],
               [name |-> "WikipediaMethod", archmethod |-> TRUE, own |-> TRUE] >>
      [] OTHER -> <<>>

\* obj(self._logger, self._client)
Instance(class, module_name, logger, client) ==
    [class |-> class, module |-> module_name, logger |-> logger, client |-> client]

\* issubclass(obj, ArchMethod) and obj.__module__ == module.__name__ and name != "ArchMethod"
Loadable(c) == c.archmethod /\ c.own /\ c.name # "ArchMethod"

\* the inner for-loop over the classes of one imported module
RECURSIVE LoadClasses(_, _, _)
LoadClasses(classes, module_name, acc) ==
    IF classes = <<>> THEN acc
    ELSE LET c == Head(classes)
         IN  IF Loadable(c)
             THEN LoadClasses(Tail(classes), module_name,
                      [methods |-> Append(acc.methods,
                                      Instance(c.name, module_name, "self._logger", "self._client")),
                       log |-> Append(acc.log, [level |-> "debug", about |-> module_name])])
             ELSE LoadClasses(Tail(classes), module_name, acc)

\* the for-loop over os.listdir(methods_dir); failing holds the modules whose
\* import raises ImportError or AttributeError
RECURSIVE LoadFiles(_, _, _, _)
LoadFiles(files, methods_names, failing, acc) ==
    IF files = <<>> THEN acc
    ELSE LET filename == Head(files)
             module_name == SubSeq(filename, 1, Len(filename) - 3)
             rest == Tail(files)
         IN  IF ~(endswith(filename, <<".", "p", "y">>) /\ ~startswith(filename, <<"_", "_">>))
             THEN LoadFiles(rest, methods_names, failing, acc)
             ELSE IF methods_names # <<>> /\ ~InSeq(methods_names, module_name)
             THEN LoadFiles(rest, methods_names, failing, acc)
             ELSE IF module_name \in failing
             THEN LoadFiles(rest, methods_names, failing,
                      [acc EXCEPT !.log = Append(@, [level |-> "error", about |-> module_name])])
             ELSE LoadFiles(rest, methods_names, failing,
                      LoadClasses(ModuleClasses(module_name), module_name, acc))

\* self._methods = [] and the loop
load(files, methods_names, failing) ==
    LoadFiles(files, methods_names, failing, [methods |-> <<>>, log |-> <<>>])

\* self._load_methods(self._config['methods'])
_load_methods ==
    /\ lpc = "constructing"
    /\ LET loaded == load(listing, config_methods, broken)
       IN  /\ methods' = loaded.methods
           /\ llog' = loaded.log
    /\ lpc' = "loaded"
    /\ UNCHANGED <<listing, config_methods, broken>>
    /\ UNCHANGED <<pc, idx, results, objs, current_version, log, ret, calls, compared>>
    /\ UNCHANGED <<strategyVars, pairVars, versionVars>>

\* every order os.listdir may give the entries in
RECURSIVE Orders(_)
Orders(S) ==
    IF S = {} THEN {<<>>}
    ELSE UNION {{<<x>> \o rest : rest \in Orders(S \ {x})} : x \in S}

\* the methods lists a configuration may hold
Configs ==
    { DEFAULT_METHODS,
      <<<<"w", "i", "k", "i", "p", "e", "d", "i", "a">>, <<"g", "o", "o", "g", "l", "e">>>>,
      <<<<"c", "v", "e", "_", "d", "e", "t", "a", "i", "l", "s">>>>,
      <<>> }

\* the modules of the package that can be imported at all
Modules == {<<"a", "r", "c", "h", "m", "e", "t", "h", "o", "d">>, <<"g", "o", "o", "g", "l", "e">>, <<"p", "r", "o", "v", "i", "d", "e", "r">>, <<"w", "i", "k", "i", "p", "e", "d", "i", "a">>}

\* UpdateFinder.__init__ has set the logger, the configuration and the client
InitLoad ==
    /\ lpc = "constructing"
    /\ listing \in Orders(MethodsDir)
    /\ config_methods \in Configs
    /\ broken \in SUBSET (Modules \ {<<"a", "r", "c", "h", "m", "e", "t", "h", "o", "d">>})
    /\ llog = <<>>
    /\ methods = <<>>
    /\ FinderIdle
    /\ StrategyOff
    /\ PairOff
    /\ VersionOff

NextLoad == _load_methods

SpecLoad == InitLoad /\ [][NextLoad]_vars

-----------------------------------------------------------------------------
(* hekate/methods/google.py, wikipedia.py, provider.py: the strategies *)

GoogleModule == <<"g", "o", "o", "g", "l", "e">>
WikipediaModule == <<"w", "i", "k", "i", "p", "e", "d", "i", "a">>
ProviderModule == <<"p", "r", "o", "v", "i", "d", "e", "r">>

\* VersionCheck.extract(text): the distinct version strings of the text, as a list
VersionCheck_extract(text) == PyList(extract_version_numbers(text))

\* VersionCheck.compare on two lists, or on a list and the caller's value: the
\* comparison is described for version strings only, so it may raise or give
\* either answer
VersionCheck_compare_unspecified == {"raise", "true", "false"}

\* WebsiteStrategy.WEBSITE_MAP: which of the optional keys each entry has
WEBSITE_MAP ==
    (<<"f", "i", "r", "e", "f", "o", "x">> :> [version_selector |-> TRUE, version_regex |-> FALSE, download_selector |-> TRUE])
    @@ (<<"c", "h", "r", "o", "m", "e">> :> [version_selector |-> FALSE, version_regex |-> TRUE, download_selector |-> FALSE])
    @@ (<<"v", "l", "c">> :> [version_selector |-> TRUE, version_regex |-> FALSE, download_selector |-> FALSE])
    @@ (<<"v", "m", "w", "a", "r", "e">> :> [version_selector |-> FALSE, version_regex |-> TRUE, download_selector |-> FALSE])
    @@ (<<"v", "i", "s", "u", "a", "l", " ", "s", "t", "u", "d", "i", "o", " ", "c", "o", "d", "e">> :>
            [version_selector |-> TRUE, version_regex |-> FALSE, download_selector |-> FALSE])
    @@ (<<"n", "o", "d", "e", "j", "s">> :> [version_selector |-> TRUE, version_regex |-> FALSE, download_selector |-> FALSE])
    @@ (<<"p", "y", "t", "h", "o", "n">> :> [version_selector |-> TRUE, version_regex |-> TRUE, download_selector |-> FALSE])

\* WebsiteStrategy.ALIASES
ALIASES ==
    (<<"v", "s", " ", "c", "o", "d", "e">> :> <<"v", "i", "s", "u", "a", "l", " ", "s", "t", "u", "d", "i", "o", " ", "c", "o", "d", "e">>)
    @@ (<<"v", "s", "c", "o", "d", "e">> :> <<"v", "i", "s", "u", "a", "l", " ", "s", "t", "u", "d", "i", "o", " ", "c", "o", "d", "e">>)
    @@ (<<"c", "h", "r", "o", "m", "e", " ", "b", "r", "o", "w", "s", "e", "r">> :> <<"c", "h", "r", "o", "m", "e">>)
    @@ (<<"g", "o", "o", "g", "l", "e", " ", "c", "h", "r", "o", "m", "e">> :> <<"c", "h", "r", "o", "m", "e">>)
    @@ (<<"m", "o", "z", "i", "l", "l", "a", " ", "f", "i", "r", "e", "f", "o", "x">> :> <<"f", "i", "r", "e", "f", "o", "x">>)
    @@ (<<"v", "m", "w", "a", "r", "e", " ", "w", "o", "r", "k", "s", "t", "a", "t", "i", "o", "n">> :> <<"v", "m", "w", "a", "r", "e">>)
    @@ (<<"v", "m", "w", "a", "r", "e", " ", "w", "o", "r", "k", "s", "t", "a", "t", "i", "o", "n", " ", "p", "r", "o">> :> <<"v", "m", "w", "a", "r", "e">>)
    @@ (<<"n", "o", "d", "e", ".", "j", "s">> :> <<"n", "o", "d", "e", "j", "s">>)
    @@ (<<"n", "o", "d", "e">> :> <<"n", "o", "d", "e", "j", "s">>)

\* GoogleMethod.can_handle
GoogleMethod_can_handle(software_name) == TRUE

\* WikipediaMethod.can_handle
WikipediaMethod_can_handle(software_name) == TRUE

\* variant: the name is looked up as given, without lower()
WebsiteStrategy_can_handle_as_given(software_name) ==
    software_name \in DOMAIN WEBSITE_MAP \/ software_name \in DOMAIN ALIASES

\* WebsiteStrategy.can_handle
WebsiteStrategy_can_handle(software_name) ==
    LET name_lower == lower(software_name)
    IN  name_lower \in DOMAIN WEBSITE_MAP \/ name_lower \in DOMAIN ALIASES

\* method.can_handle(software_name) for the instance the loader built
can_handle(instance, software_name) ==
    CASE instance.class = "GoogleMethod" -> GoogleMethod_can_handle(software_name)
      [] instance.class = "WikipediaMethod" -> WikipediaMethod_can_handle(software_name)
      [] instance.class = "WebsiteStrategy" -> WebsiteStrategy_can_handle(software_name)

\* result = {...} at the top of GoogleMethod.get_version
GoogleMethod_result ==
    [current_version |-> None, latest_version |-> None, update_found |-> FALSE,
     source_url |-> None, release_date |-> None, method |-> GoogleModule]

\* result = {...} at the top of WikipediaMethod.get_version
WikipediaMethod_result ==
    [current_version |-> None, latest_version |-> None, update_found |-> FALSE,
     source_url |-> None, release_date |-> None, method |-> GoogleModule]

\* result = {...} at the top of WebsiteStrategy.get_version
WebsiteStrategy_result(software_name) ==
    [software |-> software_name, latest_version |-> None, download_url |-> None,
     release_date |-> None, source |-> "WebsiteStrategy"]

SearchTerms == 4          \* entries of search_terms
QueriesIssued == 3        \* search_terms[:3]
Langs == <<"en", "pt">>   \* langs

\* names a caller may ask about
Softwares == {<<"F", "i", "r", "e", "f", "o", "x">>, <<"n", "o", "d", "e">>, <<"V", "L", "C">>, <<"g", "i", "m", "p">>}

\* what a results page gives: the texts handed to VersionCheck.extract, in
\* the order title, snippet, ..., featured snippet, and the links kept
ResultPages ==
    { [texts |-> <<>>, links |-> <<>>],
      [texts |-> <<<<"x">>>>, links |-> <<>>],
      [texts |-> <<V("2", "3")>>, links |-> <<<<"url", "download">>>>],
      [texts |-> <<V("2", "1"), V("2", "3")>>, links |-> <<>>] }

\* the strategy's frame: nothing of find_latest moves while get_version runs
InsideGetVersion(class) ==
    /\ pc = "get_version"
    /\ methods[idx].class = class
    /\ UNCHANGED <<finderVars, software, loaderVars, pairVars, versionVars>>

\* method.get_version(software_name) is entered: the locals are set up
get_version_enter ==
    /\ pc = "get_version"
    /\ spc = "off"
    /\ slog' = <<>>
    /\ reqs' = <<>>
    /\ sq' = 1
    /\ CASE methods[idx].class = "GoogleMethod" ->
              /\ sres' = GoogleMethod_result
              /\ sloc' = [versions |-> <<>>, source_urls |-> <<>>]
              /\ spc' = "google_query"
         [] methods[idx].class = "WikipediaMethod" ->
              /\ sres' = WikipediaMethod_result
              /\ sloc' = [page_id |-> None, wiki_page |-> None]
              /\ spc' = "wikipedia_search"
         [] methods[idx].class = "WebsiteStrategy" ->
              LET name_lower == lower(software)
                  resolved == IF name_lower \in DOMAIN ALIASES
                              THEN ALIASES[name_lower] ELSE name_lower
              IN  /\ sres' = WebsiteStrategy_result(software)
                  /\ sloc' = [name_lower |-> resolved]
                  /\ spc' = IF resolved \notin DOMAIN WEBSITE_MAP
                            THEN "return" ELSE "website_try"
    /\ UNCHANGED <<finderVars, software, loaderVars, pairVars, versionVars>>

\* the for-loop over search_terms[:3] moves on
NextQuery ==
    /\ sq' = sq + 1
    /\ spc' = IF sq + 1 > QueriesIssued THEN "google_pick" ELSE "google_query"

\* response = self._client.get(url) gave nothing: continue
GoogleMethod_no_response ==
    /\ InsideGetVersion("GoogleMethod")
    /\ spc = "google_query"
    /\ reqs' = Append(reqs, [to |-> "google", n |-> sq, got |-> "nothing"])
    /\ NextQuery
    /\ UNCHANGED <<sres, sloc, slog>>

\* the request, or the handling of the page after some of its texts were
\* taken, raises: except Exception, self._logger.warning(...)
GoogleMethod_query_raises ==
    /\ InsideGetVersion("GoogleMethod")
    /\ spc = "google_query"
    /\ \E page \in ResultPages : \E taken \in 0..Len(page.texts) :
          sloc' = [sloc EXCEPT !.versions =
                      @ \o [k \in 1..taken |-> VersionCheck_extract(page.texts[k])]]
    /\ reqs' = Append(reqs, [to |-> "google", n |-> sq, got |-> "raise"])
    /\ slog' = Append(slog, "warning")
    /\ NextQuery
    /\ UNCHANGED sres

\* the page is read: every extraction is appended to versions, links to source_urls
GoogleMethod_query_page ==
    /\ InsideGetVersion("GoogleMethod")
    /\ spc = "google_query"
    /\ \E page \in ResultPages :
          sloc' = [versions |-> sloc.versions \o
                       [k \in 1..Len(page.texts) |-> VersionCheck_extract(page.texts[k])],
                   source_urls |-> sloc.source_urls \o page.links]
    /\ reqs' = Append(reqs, [to |-> "google", n |-> sq, got |-> "page"])
    /\ NextQuery
    /\ UNCHANGED <<sres, slog>>

\* if source_urls: result["source_url"] = list(source_urls)[0]
WithSourceUrl(result, source_urls) ==
    IF source_urls # <<>> THEN [result EXCEPT !.source_url = source_urls[1]] ELSE result

\* `if versions:` is false; return result
GoogleMethod_nothing_collected ==
    /\ InsideGetVersion("GoogleMethod")
    /\ spc = "google_pick"
    /\ sloc.versions = <<>>
    /\ sres' = WithSourceUrl(sres, sloc.source_urls)
    /\ spc' = "return"
    /\ UNCHANGED <<sq, sloc, slog, reqs>>

\* latest_version = versions[0] and the scan with VersionCheck.compare, whose
\* answers on lists leave any of the collected lists as the latest
GoogleMethod_pick_latest ==
    /\ InsideGetVersion("GoogleMethod")
    /\ spc = "google_pick"
    /\ sloc.versions # <<>>
    /\ \E k \in 1..Len(sloc.versions) :
          sres' = WithSourceUrl([sres EXCEPT !.latest_version = sloc.versions[k]],
                                sloc.source_urls)
    /\ spc' = "return"
    /\ UNCHANGED <<sq, sloc, slog, reqs>>

\* the scan's VersionCheck.compare raises on its list arguments
GoogleMethod_compare_raises ==
    /\ InsideGetVersion("GoogleMethod")
    /\ spc = "google_pick"
    /\ sloc.versions # <<>>
    /\ "raise" \in VersionCheck_compare_unspecified
    /\ spc' = "raise"
    /\ UNCHANGED <<sq, sres, sloc, slog, reqs>>

\* the for-loop over langs moves on
NextLang ==
    /\ sq' = sq + 1
    /\ spc' = IF sq + 1 > Len(Langs) THEN "wikipedia_after" ELSE "wikipedia_search"

\* the prefix search gave no response or no page: continue
WikipediaMethod_search_empty ==
    /\ InsideGetVersion("WikipediaMethod")
    /\ spc = "wikipedia_search"
    /\ \E got \in {"nothing", "no pages"} :
          reqs' = Append(reqs, [to |-> Langs[sq], n |-> sq, got |-> got])
    /\ NextLang
    /\ UNCHANGED <<sres, sloc, slog>>

\* the search request or the reading of its JSON raises: warning, next language
WikipediaMethod_search_raises ==
    /\ InsideGetVersion("WikipediaMethod")
    /\ spc = "wikipedia_search"
    /\ reqs' = Append(reqs, [to |-> Langs[sq], n |-> sq, got |-> "raise"])
    /\ slog' = Append(slog, "warning")
    /\ NextLang
    /\ UNCHANGED <<sres, sloc>>

\* page_id = list(data['query']['pages'].keys())[0]
WikipediaMethod_search_found ==
    /\ InsideGetVersion("WikipediaMethod")
    /\ spc = "wikipedia_search"
    /\ reqs' = Append(reqs, [to |-> Langs[sq], n |-> sq, got |-> "page id"])
    /\ sloc' = [sloc EXCEPT !.page_id = <<"id", Langs[sq]>>]
    /\ spc' = "wikipedia_page"
    /\ UNCHANGED <<sq, sres, slog>>

\* wiki_page = self._client.get(...) gave nothing: continue
WikipediaMethod_page_missing ==
    /\ InsideGetVersion("WikipediaMethod")
    /\ spc = "wikipedia_page"
    /\ reqs' = Append(reqs, [to |-> Langs[sq], n |-> sq, got |-> "nothing"])
    /\ sloc' = [sloc EXCEPT !.wiki_page = None]
    /\ NextLang
    /\ UNCHANGED <<sres, slog>>

\* the page request raises: warning, next language
WikipediaMethod_page_raises ==
    /\ InsideGetVersion("WikipediaMethod")
    /\ spc = "wikipedia_page"
    /\ reqs' = Append(reqs, [to |-> Langs[sq], n |-> sq, got |-> "raise"])
    /\ slog' = Append(slog, "warning")
    /\ NextLang
    /\ UNCHANGED <<sres, sloc>>

\* what the page of an article may hold
WikiPages ==
    {<<"page", "no infobox">>, <<"page", "infobox without tbody">>, <<"page", "infobox with rows">>}

\* variant: the `break` is missing, the loop goes on to the next language
WikipediaMethod_page_found_continues ==
    /\ InsideGetVersion("WikipediaMethod")
    /\ spc = "wikipedia_page"
    /\ reqs' = Append(reqs, [to |-> Langs[sq], n |-> sq, got |-> "page"])
    /\ \E page \in WikiPages : sloc' = [sloc EXCEPT !.wiki_page = page]
    /\ sres' = [sres EXCEPT !.source_url = <<"url", Langs[sq]>>]
    /\ NextLang
    /\ UNCHANGED slog

\* soup = BeautifulSoup(...); result["source_url"] = wiki_page.url; break
WikipediaMethod_page_found ==
    /\ InsideGetVersion("WikipediaMethod")
    /\ spc = "wikipedia_page"
    /\ reqs' = Append(reqs, [to |-> Langs[sq], n |-> sq, got |-> "page"])
    /\ \E page \in WikiPages : sloc' = [sloc EXCEPT !.wiki_page = page]
    /\ sres' = [sres EXCEPT !.source_url = <<"url", Langs[sq]>>]
    /\ spc' = "wikipedia_after"
    /\ UNCHANGED <<sq, slog>>

\* if not wiki_page: self._logger.warning(...); return result
WikipediaMethod_no_page ==
    /\ InsideGetVersion("WikipediaMethod")
    /\ spc = "wikipedia_after"
    /\ sloc.wiki_page = None
    /\ slog' = Append(slog, "warning")
    /\ spc' = "return"
    /\ UNCHANGED <<sq, sres, sloc, reqs>>

\* infobox = soup.find(...) is None, so infobox.find("tbody") raises AttributeError
WikipediaMethod_no_infobox ==
    /\ InsideGetVersion("WikipediaMethod")
    /\ spc = "wikipedia_after"
    /\ sloc.wiki_page = <<"page", "no infobox">>
    /\ spc' = "raise"
    /\ UNCHANGED <<sq, sres, sloc, slog, reqs>>

\* `for row in rows:` names a variable that was never bound: NameError
WikipediaMethod_rows_unbound ==
    /\ InsideGetVersion("WikipediaMethod")
    /\ spc = "wikipedia_after"
    /\ sloc.wiki_page \in {<<"page", "infobox without tbody">>, <<"page", "infobox with rows">>}
    /\ spc' = "raise"
    /\ UNCHANGED <<sq, sres, sloc, slog, reqs>>

\* response = self.checker.make_request(url): the instance has no attribute
\* checker, AttributeError inside the try
WebsiteStrategy_checker_missing ==
    /\ InsideGetVersion("WebsiteStrategy")
    /\ spc = "website_try"
    /\ spc' = "website_except"
    /\ UNCHANGED <<sq, sres, sloc, slog, reqs>>

\* except Exception: self.checker.logger.warning(...) raises AttributeError
\* in its turn, which leaves get_version
WebsiteStrategy_handler_raises ==
    /\ InsideGetVersion("WebsiteStrategy")
    /\ spc = "website_except"
    /\ spc' = "raise"
    /\ UNCHANGED <<sq, sres, sloc, slog, reqs>>

\* get_version is left: the locals are gone
LeaveGetVersion ==
    /\ spc' = "off"
    /\ sq' = 0
    /\ sres' = <<>>
    /\ sloc' = <<>>
    /\ UNCHANGED <<software, slog, reqs, loaderVars, pairVars, versionVars>>

\* if not method.can_handle(software_name): continue
strategy_declines ==
    /\ pc = "can_handle"
    /\ ~can_handle(methods[idx], software)
    /\ calls' = Append(calls, Invoked(idx, "can_handle", "false"))
    /\ NextMethod
    /\ UNCHANGED <<results, objs, current_version, log, ret, methods, compared, nonFinderVars>>

\* can_handle gave True
strategy_accepts ==
    /\ pc = "can_handle"
    /\ can_handle(methods[idx], software)
    /\ pc' = "get_version"
    /\ calls' = Append(calls, Invoked(idx, "can_handle", "true"))
    /\ UNCHANGED <<idx, results, objs, current_version, log, ret, methods, compared, nonFinderVars>>

\* return result: the dict reaches find_latest
strategy_returns ==
    /\ pc = "get_version"
    /\ spc = "return"
    /\ TakeDict(sres)
    /\ LeaveGetVersion

\* the exception leaves get_version and is caught by find_latest
strategy_raises ==
    /\ pc = "get_version"
    /\ spc = "raise"
    /\ calls' = Append(calls, Invoked(idx, "get_version", "raise"))
    /\ OnException
    /\ UNCHANGED <<methods, compared>>
    /\ LeaveGetVersion

\* find_latest for the software the caller names
find_latest_of ==
    /\ pc = "idle"
    /\ \E name \in Softwares : software' = name
    /\ \E cv \in CurrentVersions : current_version' = cv
    /\ results' = <<>>
    /\ objs' = <<>>
    /\ log' = <<"info">>
    /\ ret' = NoReturn
    /\ calls' = <<>>
    /\ compared' = <<>>
    /\ idx' = 1
    /\ pc' = IF Len(methods) = 0 THEN "decide" ELSE "can_handle"
    /\ UNCHANGED <<methods, spc, sq, sres, sloc, slog, reqs, loaderVars, pairVars, versionVars>>

\* best_result['current_version'] = current_version, then VersionCheck.compare
\* with a list as its left argument gives an answer
decide_best_answers ==
    /\ pc = "decide"
    /\ results # <<>>
    /\ LET best == find_higher(results, objs)
       IN  /\ IsList(objs[best].latest_version)
           /\ \E answer \in VersionCheck_compare_unspecified \ {"raise"} :
                 objs' = [objs EXCEPT ![best].current_version = current_version,
                                      ![best].update_found = (answer = "true")]
           /\ compared' = Append(compared, <<objs[best].latest_version, current_version>>)
           /\ ret' = ReturnDict(best)
    /\ pc' = "returned"
    /\ UNCHANGED <<idx, results, current_version, log, calls, methods, nonFinderVars>>

\* the same comparison raises: the exception leaves find_latest
decide_best_raises ==
    /\ pc = "decide"
    /\ results # <<>>
    /\ LET best == find_higher(results, objs)
       IN  /\ IsList(objs[best].latest_version)
           /\ "raise" \in VersionCheck_compare_unspecified
           /\ objs' = [objs EXCEPT ![best].current_version = current_version]
           /\ compared' = Append(compared, <<objs[best].latest_version, current_version>>)
    /\ ret' = Raised
    /\ pc' = "returned"
    /\ UNCHANGED <<idx, results, current_version, log, calls, methods, nonFinderVars>>

\* an UpdateFinder built with the default configuration
InitHekate ==
    /\ \E files \in Orders(MethodsDir) : methods = load(files, DEFAULT_METHODS, {}).methods
    /\ FinderIdle
    /\ StrategyOff
    /\ LoaderOff
    /\ PairOff
    /\ VersionOff

NextHekate ==
    \/ find_latest_of
    \/ strategy_declines
    \/ strategy_accepts
    \/ get_version_enter
    \/ GoogleMethod_no_response
    \/ GoogleMethod_query_raises
    \/ GoogleMethod_query_page
    \/ GoogleMethod_nothing_collected
    \/ GoogleMethod_pick_latest
    \/ GoogleMethod_compare_raises
    \/ WikipediaMethod_search_empty
    \/ WikipediaMethod_search_raises
    \/ WikipediaMethod_search_found
    \/ WikipediaMethod_page_missing
    \/ WikipediaMethod_page_raises
    \/ WikipediaMethod_page_found
    \/ WikipediaMethod_no_page
    \/ WikipediaMethod_no_infobox
    \/ WikipediaMethod_rows_unbound
    \/ WebsiteStrategy_checker_missing
    \/ WebsiteStrategy_handler_raises
    \/ strategy_returns
    \/ strategy_raises
    \/ decide_none
    \/ decide_best_answers
    \/ decide_best_raises
    \/ call_done

SpecHekate == InitHekate /\ [][NextHekate]_vars

-----------------------------------------------------------------------------
(* hekate/update_finder.py: two find_latest calls on one UpdateFinder *)

PairMethods == 2          \* strategies in the registry the two calls share

Callers == {1, 2}

\* what a strategy may do for a caller: decline, raise, return None or a dict
PairOutcomes ==
    { [kind |-> "decline", latest |-> None],
      [kind |-> "raise", latest |-> None],
      [kind |-> "none", latest |-> None],
      [kind |-> "dict", latest |-> None],
      [kind |-> "dict", latest |-> V("2", "1")],
      [kind |-> "dict", latest |-> V("2", "3")] }

\* variant: the list is kept on the finder (self._results), one for all calls
FrameOnSelf(c) == 1

\* `results = []` is a local of the call: each call has its own
Frame(c) == c

\* the for-loop of call c moves on
PairNextMethod(c) ==
    /\ tidx' = [tidx EXCEPT ![c] = @ + 1]
    /\ tpc' = [tpc EXCEPT ![c] = IF tidx[c] + 1 > Len(methods) THEN "decide" ELSE "can_handle"]

PairFrame == UNCHANGED <<methods, pc, idx, results, objs, current_version, log, ret, calls,
                         compared, strategyVars, loaderVars, versionVars>>

\* results = []; logger.info(...)
pair_find_latest(c) ==
    /\ tpc[c] = "idle"
    /\ \E cv \in {None, V("2", "1")} : tcur' = [tcur EXCEPT ![c] = cv]
    /\ tresults' = [tresults EXCEPT ![Frame(c)] = <<>>]
    /\ tidx' = [tidx EXCEPT ![c] = 1]
    /\ tpc' = [tpc EXCEPT ![c] = IF Len(methods) = 0 THEN "decide" ELSE "can_handle"]
    /\ UNCHANGED <<tobjs, tret, tout>>
    /\ PairFrame

\* if not method.can_handle(software_name): continue
pair_can_handle_false(c) ==
    /\ tpc[c] = "can_handle"
    /\ tout' = [tout EXCEPT ![c] = Append(@, [kind |-> "decline", latest |-> None])]
    /\ PairNextMethod(c)
    /\ UNCHANGED <<tresults, tobjs, tcur, tret>>
    /\ PairFrame

\* can_handle gave True
pair_can_handle_true(c) ==
    /\ tpc[c] = "can_handle"
    /\ tpc' = [tpc EXCEPT ![c] = "get_version"]
    /\ UNCHANGED <<tidx, tresults, tobjs, tcur, tret, tout>>
    /\ PairFrame

\* can_handle or get_version raised: except Exception, logger.exception(...)
pair_raises(c) ==
    /\ tpc[c] \in {"can_handle", "get_version"}
    /\ tout' = [tout EXCEPT ![c] = Append(@, [kind |-> "raise", latest |-> None])]
    /\ PairNextMethod(c)
    /\ UNCHANGED <<tresults, tobjs, tcur, tret>>
    /\ PairFrame

\* result = method.get_version(...): None, or a dict kept when its
\* latest_version is truthy
pair_get_version(c) ==
    /\ tpc[c] = "get_version"
    /\ \E o \in {p \in PairOutcomes : p.kind \in {"none", "dict"}} :
          /\ tout' = [tout EXCEPT ![c] = Append(@, o)]
          /\ IF o.kind = "dict"
             THEN /\ tobjs' = tobjs @@ (<<c, tidx[c]>> :> NewResult(o.latest))
                  /\ IF Truthy(o.latest)
                     THEN tresults' = [tresults EXCEPT ![Frame(c)] = Collect(@, <<c, tidx[c]>>)]
                     ELSE UNCHANGED tresults
             ELSE UNCHANGED <<tobjs, tresults>>
    /\ PairNextMethod(c)
    /\ UNCHANGED <<tcur, tret>>
    /\ PairFrame

\* if not results: logger.warning(...); return None
pair_decide_none(c) ==
    /\ tpc[c] = "decide"
    /\ tresults[Frame(c)] = <<>>
    /\ tret' = [tret EXCEPT ![c] = [kind |-> "None"]]
    /\ tpc' = [tpc EXCEPT ![c] = "returned"]
    /\ UNCHANGED <<tidx, tresults, tobjs, tcur, tout>>
    /\ PairFrame

\* best_result = find_higher(results); the two assignments; return best_result
pair_decide_best(c) ==
    /\ tpc[c] = "decide"
    /\ tresults[Frame(c)] # <<>>
    /\ LET best == find_higher(tresults[Frame(c)], tobjs)
           answer == [tobjs[best] EXCEPT
                         !.current_version = tcur[c],
                         !.update_found =
                             VersionCheck_compare_gt(tobjs[best].latest_version, tcur[c])]
       IN  /\ tobjs' = [tobjs EXCEPT ![best] = answer]
           /\ tret' = [tret EXCEPT ![c] = [kind |-> "dict", value |-> answer]]
    /\ tpc' = [tpc EXCEPT ![c] = "returned"]
    /\ UNCHANGED <<tidx, tresults, tcur, tout>>
    /\ PairFrame

\* an UpdateFinder with PairMethods strategies and no call made yet
InitPair ==
    /\ methods = [k \in 1..PairMethods |-> k]
    /\ FinderIdle
    /\ StrategyOff
    /\ LoaderOff
    /\ VersionOff
    /\ tpc = [c \in Callers |-> "idle"]
    /\ tidx = [c \in Callers |-> 1]
    /\ tresults = [c \in Callers |-> <<>>]
    /\ tobjs = <<>>
    /\ tcur = [c \in Callers |-> None]
    /\ tret = [c \in Callers |-> [kind |-> "pending"]]
    /\ tout = [c \in Callers |-> <<>>]

NextPair ==
    \E c \in Callers :
        \/ pair_find_latest(c)
        \/ pair_can_handle_false(c)
        \/ pair_can_handle_true(c)
        \/ pair_raises(c)
        \/ pair_get_version(c)
        \/ pair_decide_none(c)
        \/ pair_decide_best(c)

SpecPair == InitPair /\ [][NextPair]_vars

-----------------------------------------------------------------------------
(* The version functions applied to every input up to a length *)

\* no UpdateFinder takes part in the pure-function runs
NoFinder ==
    /\ methods = <<>>
    /\ FinderIdle
    /\ StrategyOff
    /\ LoaderOff
    /\ PairOff

\* normalize_version(va)
normalize_run ==
    /\ vpc = "input1"
    /\ vout' = normalize_version(va)
    /\ vpc' = "normalized"
    /\ UNCHANGED <<va, vb, vc, nonVersionVars>>

InitNormalize ==
    /\ NoFinder
    /\ vpc = "input1"
    /\ va \in StrsUpTo(Chars1, MaxLen1)
    /\ vb = <<>>
    /\ vc = <<>>
    /\ vout = <<>>

NextNormalize == normalize_run

SpecNormalize == InitNormalize /\ [][NextNormalize]_vars

\* compare_versions on a pair, both ways round and on itself
compare_run ==
    /\ vpc = "input2"
    /\ vout' = [ab |-> compare_versions(va, vb),
                ba |-> compare_versions(vb, va),
                aa |-> compare_versions(va, va)]
    /\ vpc' = "compared"
    /\ UNCHANGED <<va, vb, vc, nonVersionVars>>

InitCompare ==
    /\ NoFinder
    /\ vpc = "input2"
    /\ va \in StrsUpTo(Chars2, MaxLen2)
    /\ vb \in StrsUpTo(Chars2, MaxLen2)
    /\ vc = <<>>
    /\ vout = <<>>

NextCompare == compare_run

SpecCompare == InitCompare /\ [][NextCompare]_vars

\* compare_versions along a chain of three
compare_chain_run ==
    /\ vpc = "input3"
    /\ vout' = [ab |-> compare_versions(va, vb),
                bc |-> compare_versions(vb, vc),
                ac |-> compare_versions(va, vc)]
    /\ vpc' = "chained"
    /\ UNCHANGED <<va, vb, vc, nonVersionVars>>

InitChain ==
    /\ NoFinder
    /\ vpc = "input3"
    /\ va \in StrsUpTo(Chars2, MaxLen3)
    /\ vb \in StrsUpTo(Chars2, MaxLen3)
    /\ vc \in StrsUpTo(Chars2, MaxLen3)
    /\ vout = <<>>

NextChain == compare_chain_run

SpecChain == InitChain /\ [][NextChain]_vars

\* fragments the texts are put together from
Tokens ==
    { Word("version") \o <<" ">>,
      <<"V", "e", "r", "s", "i", "o", "n", ":", " ">>,
      <<"v">>, <<" ">>, <<".">>, <<"1">>, <<"1", ".", "2">>,
      Word("(build") \o <<" ", "7", ")">>,
      <<"x">> }

RECURSIVE TextsUpTo(_)
TextsUpTo(n) ==
    IF n = 0 THEN {<<>>}
    ELSE LET shorter == TextsUpTo(n - 1)
         IN  shorter \cup {s \o tk : s \in shorter, tk \in Tokens}

\* "Version: 3.4.1 (build 77)"
BuildText ==
    <<"V", "e", "r", "s", "i", "o", "n", ":", " ">> \o Str3("3", "4", "1")
        \o <<" ">> \o Word("(build") \o <<" ", "7", "7", ")">>

\* extract_version_numbers(va), with the matches of each pattern kept
extract_run ==
    /\ vpc = "text"
    /\ vout' = [matches |-> PatternMatches(va),
                unique |-> extract_version_numbers(va)]
    /\ vpc' = "extracted"
    /\ UNCHANGED <<va, vb, vc, nonVersionVars>>

InitExtract ==
    /\ NoFinder
    /\ vpc = "text"
    /\ va \in TextsUpTo(MaxTokens) \cup {BuildText}
    /\ vb = <<>>
    /\ vc = <<>>
    /\ vout = <<>>

NextExtract == extract_run

SpecExtract == InitExtract /\ [][NextExtract]_vars

\* versions all of whose parts are runs of zeros: "0", "00", "0.0", ...
ZeroVersions ==
    {z \in StrsUpTo({"0", "."}, MaxLen2) :
        /\ Len(z) > 0
        /\ z[1] = "0"
        /\ z[Len(z)] = "0"
        /\ \A k \in 1..(Len(z) - 1) : ~(z[k] = "." /\ z[k + 1] = ".")}

\* parse_version(va), normalize_version applied once and twice, and
\* compare_versions(va, .) against the normalized form and the zero versions
parse_run ==
    /\ vpc = "input"
    /\ vout' = [components |-> parse_version(va),
                normalized |-> normalize_version(va),
                renormalized |-> normalize_version(normalize_version(va)),
                with_normalized |-> compare_versions(va, normalize_version(va)),
                with_zero |-> [z \in ZeroVersions |-> compare_versions(va, z)]]
    /\ vpc' = "parsed"
    /\ UNCHANGED <<va, vb, vc, nonVersionVars>>

InitParse ==
    /\ NoFinder
    /\ vpc = "input"
    /\ va \in StrsUpTo(Chars1, MaxLen1)
    /\ vb = <<>>
    /\ vc = <<>>
    /\ vout = <<>>

NextParse == parse_run

SpecParse == InitParse /\ [][NextParse]_vars

-----------------------------------------------------------------------------
(* hekate/methods/provider.py: the version taken from a fetched page *)

\* what a text gives: the captures of the entry's version_regex in it, in
\* order of occurrence, and the list extract_version_numbers makes of it
PageTexts ==
    [regex : {<<>>, <<Str3("3", "4", "1")>>, <<Str3("3", "4", "1"), Str3("3", "5", "0")>>},
     numbers : {<<>>, <<V("2", "0")>>, <<Str3("3", "4", "1"), V("2", "0")>>}]

\* a fetched page: whether select_one(version_selector) finds an element,
\* the element's text, and response.text
FetchedPages ==
    {[element |-> FALSE, text |-> [regex |-> <<>>, numbers |-> <<>>], body |-> b] :
        b \in PageTexts}
    \cup [element : {TRUE}, text : PageTexts, body : PageTexts]

\* `if found: version = found[0]`, version being None before
FirstOrNone(found) == IF found # <<>> THEN found[1] ELSE None

\* version, as lines 123-140 leave it
ExtractVersion(website_info, page) ==
    IF website_info.version_selector
    THEN IF page.element
         THEN IF website_info.version_regex
              THEN FirstOrNone(page.text.regex)
              ELSE FirstOrNone(page.text.numbers)
         ELSE None
    ELSE IF website_info.version_regex
         THEN FirstOrNone(page.body.regex)
         ELSE None

\* the entry va of WEBSITE_MAP applied to the fetched page vb:
\* result['latest_version'] after line 155
extract_from_page ==
    /\ vpc = "fetched"
    /\ vout' = ExtractVersion(WEBSITE_MAP[va], vb)
    /\ vpc' = "picked"
    /\ UNCHANGED <<va, vb, vc, nonVersionVars>>

InitProvider ==
    /\ NoFinder
    /\ vpc = "fetched"
    /\ va \in DOMAIN WEBSITE_MAP
    /\ vb \in FetchedPages
    /\ vc = <<>>
    /\ vout = <<>>

NextProvider == extract_from_page

SpecProvider == InitProvider /\ [][NextProvider]_vars

-----------------------------------------------------------------------------
(* Properties of find_latest *)

DispatchedTo(k) ==
    \E n \in 1..Len(calls) : calls[n].method = k /\ calls[n].op = "can_handle"

RaisedAt(k) ==
    \E n \in 1..Len(calls) : calls[n].method = k /\ calls[n].out = "raise"

Reported(k, v) == k \in DOMAIN objs /\ objs[k].latest_version = v

\* C1: a fault raised by a strategy's can_handle or get_version is caught
\* and logged with logger.exception, that strategy adds nothing to the
\* aggregate, every strategy after it is still dispatched, and the call
\* never ends by raising; with A raising, B reporting 2.1 and C reporting
\* 2.3 against current version 2.0 the call returns C's dict with
\* update_found true.
C1_FaultIsolated ==
    /\ ret.kind # "raise"
    /\ pc = "returned" =>
        /\ \A k \in Methods : DispatchedTo(k)
        /\ \A k \in Methods : RaisedAt(k) => ~InSeq(results, k)
        /\ CountIn(log, "exception") = Cardinality({k \in Methods : RaisedAt(k)})
        /\ ( /\ NumMethods = 3
             /\ RaisedAt(1)
             /\ Reported(2, V("2", "1"))
             /\ Reported(3, V("2", "3"))
             /\ current_version = V("2", "0") )
           => ( /\ ret = ReturnDict(3)
                /\ objs[3].latest_version = V("2", "3")
                /\ objs[3].update_found )

C1_Witness ==
    /\ pc = "returned"
    /\ RaisedAt(1)
    /\ Reported(2, V("2", "1"))
    /\ Reported(3, V("2", "3"))
    /\ current_version = V("2", "0")
    /\ ret = ReturnDict(3)

\* C2: the dict returned is a member of the aggregate whose latest_version
\* is not below any other member's under compare_versions, and among the
\* members that compare equal to it, it is the one dispatched first.
C2_StableMax ==
    (pc = "returned" /\ ret.kind = "dict") =>
        /\ InSeq(results, ret.ref)
        /\ \A k \in Methods : InSeq(results, k) =>
            /\ compare_versions(objs[ret.ref].latest_version, objs[k].latest_version) >= 0
            /\ compare_versions(objs[ret.ref].latest_version, objs[k].latest_version) = 0
                 => ret.ref <= k

C2_Witness ==
    /\ pc = "returned"
    /\ ret.kind = "dict"
    /\ \E k \in Methods :
        /\ k > ret.ref
        /\ InSeq(results, k)
        /\ objs[k].latest_version # objs[ret.ref].latest_version
        /\ compare_versions(objs[ret.ref].latest_version, objs[k].latest_version) = 0
    /\ \E k \in Methods :
        /\ k < ret.ref
        /\ InSeq(results, k)

\* no strategy of this call produced a dict with a non-empty latest_version
NothingFound ==
    \A k \in Methods : k \in DOMAIN objs => objs[k].latest_version \in {None, <<>>}

\* C3: when every strategy declined, returned None, returned an empty
\* latest_version or raised, the call returns None, has logged exactly one
\* warning, and has not raised.
C3_NoInformation ==
    (pc = "returned" /\ NothingFound) =>
        /\ ret = ReturnNone
        /\ CountIn(log, "warning") = 1

C3_Witness ==
    /\ pc = "returned"
    /\ NothingFound
    /\ ret = ReturnNone
    /\ \E k \in Methods : Reported(k, <<>>)
    /\ \E k \in Methods : RaisedAt(k)
    /\ \E n \in 1..Len(calls) : calls[n].out = "false"

\* C4: with a current_version supplied and a version found, the returned
\* dict carries that current_version, and update_found is true exactly
\* when compare_versions(latest_version, current_version) > 0.
C4_UpdateFound ==
    (pc = "returned" /\ ret.kind = "dict" /\ current_version # None) =>
        /\ objs[ret.ref].current_version = current_version
        /\ objs[ret.ref].update_found
             <=> (compare_versions(objs[ret.ref].latest_version, current_version) > 0)

C4_Witness ==
    /\ pc = "returned"
    /\ ret.kind = "dict"
    /\ current_version = V("2", "3")
    /\ objs[ret.ref].latest_version = V("2", "3") \o <<".", "0">>
    /\ ~objs[ret.ref].update_found

C17_RecordNotMutated ==
    [][\A k \in DOMAIN objs : k \in DOMAIN objs' => objs'[k] = objs[k]]_vars

\* C18: VersionCheck.compare is never handed None by find_latest, a missing
\* current_version is dealt with before the update_found comparison.
C18_CompareNeverGetsNone ==
    \A n \in 1..Len(compared) : compared[n][1] # None /\ compared[n][2] # None

\* positions of `calls` at which get_version gave a dict with a non-empty
\* latest_version
KeptCalls ==
    LET Kept(n) == /\ calls[n].op = "get_version"
                   /\ calls[n].out = "dict"
                   /\ objs[calls[n].method].latest_version \notin {None, <<>>}
    IN  SelectSeq([n \in 1..Len(calls) |-> n], Kept)

\* C19: at every point of the call the list `results` holds exactly the
\* dicts whose get_version gave a non-empty latest_version, in the order the
\* strategies were asked; a None return, a None and an empty latest_version
\* are all left out.
C19_AggregateExact ==
    results = [j \in 1..Len(KeptCalls) |-> calls[KeptCalls[j]].method]

C19_Witness ==
    /\ pc = "returned"
    /\ results = <<1, 3>>
    /\ Reported(2, <<>>)

\* positions of `calls` that are can_handle invocations
CanHandleCalls ==
    LET IsCanHandle(n) == calls[n].op = "can_handle"
    IN  SelectSeq([n \in 1..Len(calls) |-> n], IsCanHandle)

\* C20: strategies are asked one at a time in registry order: the j-th
\* can_handle is that of the j-th strategy (so once each), get_version only
\* directly follows a can_handle of the same strategy that gave true (so at
\* most once), and a strategy is begun only after the one before it has
\* declined, returned or raised.
C20_OneAtATimeInOrder ==
    /\ \A j \in 1..Len(CanHandleCalls) : calls[CanHandleCalls[j]].method = j
    /\ \A n \in 1..Len(calls) :
         /\ calls[n].op = "get_version" =>
                (n > 1 /\ calls[n - 1] = Invoked(calls[n].method, "can_handle", "true"))
         /\ (calls[n].op = "can_handle" /\ n > 1) =>
                /\ calls[n - 1].method = calls[n].method - 1
                /\ \/ calls[n - 1].op = "get_version"
                   \/ calls[n - 1].out \in {"false", "raise"}
         /\ calls[n].method <= idx
    /\ pc = "can_handle" => ~DispatchedTo(idx)
    /\ pc = "get_version" => calls[Len(calls)] = Invoked(idx, "can_handle", "true")

C20_Witness ==
    /\ pc = "returned"
    /\ InSeq(calls, Invoked(1, "can_handle", "false"))
    /\ InSeq(calls, Invoked(2, "get_version", "raise"))
    /\ InSeq(calls, Invoked(3, "get_version", "dict"))

\* strategies of a call whose dict would be kept, by position
AloneKept(outs) ==
    LET Kept(k) == outs[k].kind = "dict" /\ outs[k].latest \notin {None, <<>>}
    IN  SelectSeq([k \in 1..Len(outs) |-> k], Kept)

\* what a call returns when it is the only one: the first of the highest
\* versions its own strategies gave, set against its own current_version
Alone(outs, cur) ==
    LET heap == [k \in 1..Len(outs) |-> NewResult(outs[k].latest)]
    IN  IF AloneKept(outs) = <<>> THEN [kind |-> "None"]
        ELSE LET latest == heap[find_higher(AloneKept(outs), heap)].latest_version
             IN  [kind |-> "dict",
                  value |-> [current_version |-> cur,
                             latest_version |-> latest,
                             update_found |-> VersionCheck_compare_gt(latest, cur)]]

\* C16: two find_latest calls on one UpdateFinder, interleaved at their
\* strategy calls, each return what they would return alone; a step of one
\* call leaves the other call's results list as it was, and no step writes
\* the registry or the configuration.
C16_CallsIndependent ==
    /\ [](\A c \in Callers : tpc[c] = "returned" => tret[c] = Alone(tout[c], tcur[c]))
    /\ [][/\ methods' = methods
          /\ config_methods' = config_methods
          /\ \A c \in Callers :
                (tpc'[c] = tpc[c] /\ tidx'[c] = tidx[c]) => tresults'[c] = tresults[c]]_vars

C16_Witness ==
    /\ tpc = (1 :> "get_version") @@ (2 :> "get_version")
    /\ tidx = (1 :> 2) @@ (2 :> 2)
    /\ tresults[1] # <<>>
    /\ tresults[2] # <<>>
    /\ tobjs[tresults[1][1]].latest_version # tobjs[tresults[2][1]].latest_version

-----------------------------------------------------------------------------
(* Properties of the version functions *)

\* C6: compare_versions(a, b) = -compare_versions(b, a) and
\* compare_versions(a, a) = 0 for every pair of version strings.
C6_Antisymmetric ==
    vpc = "compared" =>
        /\ vout.ab = 0 - vout.ba
        /\ vout.aa = 0

C6_Witness ==
    /\ vpc = "compared"
    /\ va = <<"1", ".", "2">>
    /\ vb = <<"v", "2">>
    /\ vout.ab = -1
    /\ vout.ba = 1

\* C7: compare_versions(a, b) >= 0 and compare_versions(b, c) >= 0 imply
\* compare_versions(a, c) >= 0.
C7_Transitive ==
    vpc = "chained" =>
        ((vout.ab >= 0 /\ vout.bc >= 0) => vout.ac >= 0)

C7_Witness ==
    /\ vpc = "chained"
    /\ va = <<".", "2">>
    /\ vb = <<"0">>
    /\ vc = <<"v">>
    /\ vout.ab = 1
    /\ vout.bc = 0
    /\ vout.ac = 1

\* component k of a parsed tuple once it is zero-padded
Component(t, k) == IF k <= Len(t) THEN t[k] ELSE 0

\* the sign of the first differing component of the zero-padded tuples
FirstDifferenceSign(a, b) ==
    LET p == parse_version(a)
        q == parse_version(b)
        n == IF Len(p) >= Len(q) THEN Len(p) ELSE Len(q)
        differing == {k \in 1..n : Component(p, k) # Component(q, k)}
    IN  IF differing = {} THEN 0
        ELSE LET first == CHOOSE k \in differing : \A j \in differing : k <= j
             IN  IF Component(p, first) > Component(q, first) THEN 1 ELSE -1

\* C8: compare_versions returns -1, 0 or 1, the sign of the first
\* differing component of the two parsed tuples after zero-padding, the
\* components compared as integers; compare("1.10.0", "1.9.9") = 1 and
\* compare("1.2", "1.2.0") = 0.
C8_FirstDifferenceDecides ==
    /\ vpc = "compared" =>
        /\ vout.ab \in {-1, 0, 1}
        /\ vout.ab = FirstDifferenceSign(va, vb)
    /\ compare_versions(<<"1", ".", "1", "0", ".", "0">>, Str3("1", "9", "9")) = 1
    /\ compare_versions(<<"1", ".", "2">>, Str3("1", "2", "0")) = 0

C8_Witness ==
    /\ vpc = "compared"
    /\ va = <<"1", "0">>
    /\ vb = <<"2", ".", "1">>
    /\ vout.ab = 1

\* C9's reading of normalize: drop one leading v or V, then keep the parts
\* up to the last one that is not "0" (at least the first part)
NormalizedAsSpecified(s) ==
    LET body == IF Len(s) > 0 /\ s[1] \in {"v", "V"} THEN Tail(s) ELSE s
        parts == split(body, ".")
        keep == CHOOSE n \in 1..Len(parts) :
                    /\ \A j \in (n + 1)..Len(parts) : parts[j] = <<"0">>
                    /\ n = 1 \/ parts[n] # <<"0">>
    IN  join(SubSeq(parts, 1, keep), ".")

\* C9: normalize_version drops a leading v/V and then the trailing "0"
\* components, stopping at a component that is not "0" or when one
\* component is left, the other components unchanged and in order;
\* normalize("v1.2.0") = "1.2" and normalize("2.0.0.0") = "2".
C9_NormalizeStrips ==
    /\ vpc = "normalized" => vout = NormalizedAsSpecified(va)
    /\ normalize_version(<<"v">> \o Str3("1", "2", "0")) = <<"1", ".", "2">>
    /\ normalize_version(Str3("2", "0", "0") \o <<".", "0">>) = <<"2">>

C9_Witness ==
    /\ vpc = "normalized"
    /\ va = <<"V", "0", ".", "0">>
    /\ vout = <<"0">>

\* pattern p produced the string x
ProducedBy(m, p, x) == \E n \in 1..Len(m[p]) : m[p][n] = x

\* the first pattern that produced x, and x's first place among its matches
FirstPattern(m, x) ==
    CHOOSE p \in 1..NumPatterns :
        ProducedBy(m, p, x) /\ \A q \in 1..(p - 1) : ~ProducedBy(m, q, x)

FirstPlace(m, x) ==
    LET p == FirstPattern(m, x)
    IN  CHOOSE n \in 1..Len(m[p]) :
            m[p][n] = x /\ \A k \in 1..(n - 1) : m[p][k] # x

ProducedEarlier(m, x, y) ==
    \/ FirstPattern(m, x) < FirstPattern(m, y)
    \/ FirstPattern(m, x) = FirstPattern(m, y) /\ FirstPlace(m, x) < FirstPlace(m, y)

\* u lists what the patterns produced, once each, in order of first production
ListsFirstProductions(m, u) ==
    /\ \A i, j \in 1..Len(u) : i < j => u[i] # u[j]
    /\ \A i \in 1..Len(u) : \E p \in 1..NumPatterns : ProducedBy(m, p, u[i])
    /\ \A p \in 1..NumPatterns : \A n \in 1..Len(m[p]) : InSeq(u, m[p][n])
    /\ \A i, j \in 1..Len(u) : i < j => ProducedEarlier(m, u[i], u[j])

\* C10: extract_version_numbers returns each produced string once, ordered
\* by the first pattern that produced it and then by its first place among
\* that pattern's matches; for "Version: 3.4.1 (build 77)" the result holds
\* "3.4.1" exactly once, ahead of every string that only the build pattern
\* produced.
C10_DistinctInFirstSeenOrder ==
    /\ vpc = "extracted" => ListsFirstProductions(vout.matches, vout.unique)
    /\ (vpc = "extracted" /\ va = BuildText) =>
        LET m == vout.matches
            u == vout.unique
        IN  /\ CountIn(u, Str3("3", "4", "1")) = 1
            /\ ProducedBy(m, 5, Str3("3", "4", "1"))
            /\ \A j \in 1..Len(u) :
                 (\A p \in (1..NumPatterns) \ {5} : ~ProducedBy(m, p, u[j]))
                     => \E i \in 1..(j - 1) : u[i] = Str3("3", "4", "1")

C10_Witness ==
    /\ vpc = "extracted"
    /\ va = <<"1", ".", "2", " ", "1", "1", ".", "2">>
    /\ vout.unique = << <<"1", ".", "2">>, <<"1", "1", ".", "2">> >>
    /\ Len(vout.matches[3]) = 2
    /\ Len(vout.matches[6]) = 2

-----------------------------------------------------------------------------
(* Properties of the loader *)

\* the package holds a module of that name with a strategy class in it
HasImplementation(id) ==
    /\ (id \o <<".", "p", "y">>) \in MethodsDir
    /\ \E n \in 1..Len(ModuleClasses(id)) : Loadable(ModuleClasses(id)[n])

InstancesOf(id) == {n \in 1..Len(methods) : methods[n].module = id}

ErrorLoggedAbout(id) ==
    \E n \in 1..Len(llog) : llog[n] = [level |-> "error", about |-> id]

\* C15: after _load_methods ran with a list of configured identifiers, the
\* registry holds one instance, built with the shared logger and client, for
\* each configured identifier that has an implementation and nothing else; a
\* configured identifier without an implementation, or whose module fails to
\* load, has no instance and an error logged about it, and the others are
\* loaded all the same.
C15_OneInstancePerImplemented ==
    (lpc = "loaded" /\ config_methods # <<>>) =>
        /\ \A n \in 1..Len(methods) :
              /\ InSeq(config_methods, methods[n].module)
              /\ methods[n].logger = "self._logger"
              /\ methods[n].client = "self._client"
        /\ \A c \in 1..Len(config_methods) :
              LET id == config_methods[c]
              IN  IF HasImplementation(id) /\ id \notin broken
                  THEN Cardinality(InstancesOf(id)) = 1
                  ELSE InstancesOf(id) = {} /\ ErrorLoggedAbout(id)

-----------------------------------------------------------------------------
(* Properties of the strategies *)

\* the strategy at the loop's position is of that class and inside get_version
Running(class) ==
    pc = "get_version" /\ spc # "off" /\ methods[idx].class = class

C12_WikipediaNeverRaises ==
    Running("WikipediaMethod") => spc # "raise"

\* C13: WebsiteStrategy.get_version does not raise for a name it handles: an
\* exception inside its try block is logged as a warning by the handler,
\* and the result it returns then has latest_version None.
C13_WebsiteNeverRaises ==
    Running("WebsiteStrategy") =>
        /\ spc # "raise"
        /\ spc = "return" => (sres.latest_version = None /\ InSeq(slog, "warning"))

\* queries that ended without a page: no response, or an exception
FailedQueries == {n \in 1..Len(reqs) : reqs[n].got \in {"nothing", "raise"}}

\* C14: in GoogleMethod.get_version a query that got no response or whose
\* handling raised is skipped with a warning and the later queries are
\* still issued; when no query gave a version candidate the result returned
\* has latest_version None; a failed query never makes the call raise.
C14_FailedQuerySkipped ==
    Running("GoogleMethod") =>
        /\ CountIn(slog, "warning") = Cardinality(FailedQueries)
        /\ spc \in {"google_pick", "return", "raise"} => Len(reqs) = QueriesIssued
        /\ (spc = "return" /\ \A k \in 1..Len(sloc.versions) : sloc.versions[k] = PyList(<<>>))
              => sres.latest_version = None
        /\ sloc.versions = <<>> => spc # "raise"

-----------------------------------------------------------------------------
(* Properties of parse_version and normalize_version *)

\* C25 as stated: parse_version of the empty string returns the empty tuple,
\* and the empty string compares equal (0) to every all-zero version.
C25_EmptyParsesToEmptyTuple ==
    (vpc = "parsed" /\ va = <<>>) =>
        /\ vout.components = <<>>
        /\ \A z \in ZeroVersions : vout.with_zero[z] = 0

\* C25: parse_version of the empty string returns the one-component tuple
\* (0,), and the empty string compares equal (0) to every all-zero version
\* such as "0" and "0.0".
C25_EmptyParsesToZero ==
    (vpc = "parsed" /\ va = <<>>) =>
        /\ vout.components = <<0>>
        /\ \A z \in ZeroVersions : vout.with_zero[z] = 0

C25_Witness ==
    /\ vpc = "parsed"
    /\ va = <<>>
    /\ vout.components = <<0>>
    /\ <<"0">> \in ZeroVersions
    /\ <<"0", ".", "0">> \in ZeroVersions
    /\ vout.with_zero[<<"0", ".", "0">>] = 0

\* C26: parse_version returns one integer per dot-separated part of the
\* normalized string: the part's integer value when it converts, otherwise
\* the value of its leading digit run, otherwise 0; and every component of
\* the returned tuple is a non-negative integer.
C26_ComponentsNonNegative ==
    vpc = "parsed" =>
        LET parts == split(vout.normalized, ".")
        IN  /\ Len(vout.components) = Len(parts)
            /\ \A k \in 1..Len(parts) :
                   /\ vout.components[k] =
                          IF IntParses(parts[k]) THEN IntOf(parts[k])
                          ELSE IF \E d \in DigitChars : startswith(parts[k], <<d>>)
                               THEN DigitsVal(LeadingDigits(parts[k]))
                               ELSE 0
                   /\ vout.components[k] >= 0

\* the string begins with two letters v (either case): one is left after
\* normalize_version
StartsWithTwoVs(s) ==
    Len(s) >= 2 /\ s[1] \in {"v", "V"} /\ s[2] \in {"v", "V"}

\* C28 as stated: normalize_version is idempotent for every string s, and
\* compare_versions(s, normalize_version(s)) is 0.
C28_NormalizeIdempotent ==
    vpc = "parsed" =>
        /\ vout.renormalized = vout.normalized
        /\ vout.with_normalized = 0

\* C28: for every string s that does not begin with two letters v,
\* normalize_version(normalize_version(s)) equals normalize_version(s) and
\* compare_versions(s, normalize_version(s)) is 0.
C28_NormalizeIdempotentPastOneV ==
    (vpc = "parsed" /\ ~StartsWithTwoVs(va)) =>
        /\ vout.renormalized = vout.normalized
        /\ vout.with_normalized = 0

C28_Witness ==
    /\ vpc = "parsed"
    /\ va = <<"V", "1", ".", "0">>
    /\ vout.normalized = <<"1">>
    /\ vout.renormalized = <<"1">>
    /\ vout.with_normalized = 0

\* the text is one dotted number of three or more components, nothing else
IsDottedNumber(t) ==
    LET parts == split(t, ".")
    IN  Len(parts) >= 3 /\ \A k \in 1..Len(parts) : AllDigits(parts[k])

\* C29: for a text whose only version-like token is one dotted number with
\* three or more components, every candidate extract_version_numbers
\* returns equals that whole token; no trailing fragment of it is returned.
C29_NoTrailingFragment ==
    (vpc = "extracted" /\ IsDottedNumber(va)) =>
        \A n \in 1..Len(vout.unique) : vout.unique[n] = va

-----------------------------------------------------------------------------
(* Properties of the strategies' get_version and can_handle *)

\* C24: whenever GoogleMethod.get_version harvested at least one version
\* candidate, the latest_version it returns is a single version string, one
\* of the harvested candidates, and >= every harvested candidate under
\* version comparison.
C24_LatestIsMaximalCandidate ==
    (/\ Running("GoogleMethod")
     /\ spc = "return"
     /\ \E k \in 1..Len(sloc.versions) : sloc.versions[k] # PyList(<<>>)) =>
        /\ ~IsList(sres.latest_version)
        /\ \E k \in 1..Len(sloc.versions) :
               \E j \in 2..Len(sloc.versions[k]) :
                  sres.latest_version = sloc.versions[k][j]
        /\ \A k \in 1..Len(sloc.versions) :
               \A j \in 2..Len(sloc.versions[k]) :
                  compare_versions(sres.latest_version, sloc.versions[k][j]) >= 0

\* outcomes of a request after which the loop moves to the next language
LanguageFailed == {"nothing", "no pages", "raise"}

\* some request of the call was answered with an article page
PageYielded == \E n \in 1..Len(reqs) : reqs[n].got = "page"

\* C22: WikipediaMethod.get_version tries the language editions in the order
\* en then pt; it moves to the next language when the search gives no
\* response or no page hit, the page fetch fails or an exception is raised;
\* once a language has yielded a page no further request is issued; and
\* when no language yields a page it returns the empty result with a warning.
C22_LanguagesInOrder ==
    Running("WikipediaMethod") =>
        /\ \A n \in 1..Len(reqs) :
               /\ n = 1 => reqs[n].to = "en"
               /\ n > 1 =>
                      \/ /\ reqs[n - 1].got = "page id"
                         /\ reqs[n].to = reqs[n - 1].to
                      \/ /\ reqs[n - 1].got \in LanguageFailed
                         /\ reqs[n - 1].to = "en"
                         /\ reqs[n].to = "pt"
               /\ n < Len(reqs) => reqs[n].got # "page"
        /\ spc = "raise" => PageYielded
        /\ spc = "return" =>
               /\ ~PageYielded
               /\ \E n \in 1..Len(reqs) : reqs[n].to = "en"
               /\ reqs[Len(reqs)].to = "pt"
               /\ reqs[Len(reqs)].got \in LanguageFailed
               /\ sres.latest_version = None
               /\ sres.source_url = None
               /\ slog # <<>>
               /\ slog[Len(slog)] = "warning"

\* en gave no response, pt gave a page id and then the page
C22_Witness ==
    /\ Running("WikipediaMethod")
    /\ spc = "wikipedia_after"
    /\ Len(reqs) = 3
    /\ reqs[1] = [to |-> "en", n |-> 1, got |-> "nothing"]
    /\ reqs[2] = [to |-> "pt", n |-> 2, got |-> "page id"]
    /\ reqs[3] = [to |-> "pt", n |-> 2, got |-> "page"]

\* the lower-cased name is a key of the site map or of the alias table
KnownToWebsiteStrategy(name) ==
    lower(name) \in (DOMAIN WEBSITE_MAP \cup DOMAIN ALIASES)

\* the answers can_handle gave in this call are those of the three classes
CanHandleAnswers ==
    \A n \in 1..Len(calls) :
        calls[n].op = "can_handle" =>
            LET class == methods[calls[n].method].class
            IN  /\ class \in {"GoogleMethod", "WikipediaMethod"} => calls[n].out = "true"
                /\ class = "WebsiteStrategy" =>
                       (calls[n].out = "true" <=> KnownToWebsiteStrategy(software))

\* get_version of an accepted name works on an entry of the site map that is
\* the lower-cased name or its alias
ResolvedByOneAlias ==
    Running("WebsiteStrategy") =>
        /\ sloc.name_lower \in DOMAIN WEBSITE_MAP
        /\ \/ sloc.name_lower = lower(software)
           \/ /\ lower(software) \in DOMAIN ALIASES
              /\ sloc.name_lower = ALIASES[lower(software)]

\* C30: can_handle of GoogleMethod and WikipediaMethod is true for every
\* name; can_handle of WebsiteStrategy is true exactly when the lower-cased
\* name is a key of WEBSITE_MAP or of ALIASES, and then get_version resolves
\* the name through at most one alias to an entry of WEBSITE_MAP; a
\* can_handle call issues no request and changes no state.
C30_CanHandleExactAndPure ==
    /\ [](CanHandleAnswers /\ ResolvedByOneAlias)
    /\ [][pc = "can_handle" =>
             UNCHANGED <<methods, strategyVars, results, objs, current_version, log, ret>>]_vars

\* "node" was accepted and get_version works on the entry of "nodejs"
C30_Witness ==
    /\ Running("WebsiteStrategy")
    /\ software = <<"n", "o", "d", "e">>
    /\ calls[Len(calls)] = Invoked(idx, "can_handle", "true")
    /\ sloc.name_lower = <<"n", "o", "d", "e", "j", "s">>

\* where the configured methods list names the module
ConfigPosition(module_name) ==
    CHOOSE p \in 1..Len(DEFAULT_METHODS) : DEFAULT_METHODS[p] = module_name

\* C27: find_latest dispatches the strategies in the order of their
\* identifiers in the configured methods list, whatever the order in which
\* the methods directory was enumerated.
C27_DispatchFollowsConfig ==
    \A n, m \in 1..Len(calls) :
        (n < m /\ calls[n].op = "can_handle" /\ calls[m].op = "can_handle") =>
            ConfigPosition(methods[calls[n].method].module)
                < ConfigPosition(methods[calls[m].method].module)

\* C23: the version is picked by the precedence selector+regex, selector
\* alone, regex alone: an entry with both uses the regex on the selected
\* node's text, an entry with only a selector the first extracted candidate
\* of the node's text, an entry with only a regex the first match in the
\* whole page; and an entry with both still obtains a version from the regex
\* when its selector matches no node.
C23_SelectorMissFallsBackToRegex ==
    vpc = "picked" =>
        LET website_info == WEBSITE_MAP[va]
        IN  /\ (website_info.version_selector /\ website_info.version_regex /\ vb.element)
                   => vout = (IF vb.text.regex # <<>> THEN vb.text.regex[1] ELSE None)
            /\ (website_info.version_selector /\ ~website_info.version_regex /\ vb.element)
                   => vout = (IF vb.text.numbers # <<>> THEN vb.text.numbers[1] ELSE None)
            /\ (~website_info.version_selector /\ website_info.version_regex)
                   => vout = (IF vb.body.regex # <<>> THEN vb.body.regex[1] ELSE None)
            /\ (/\ website_info.version_selector
                /\ website_info.version_regex
                /\ ~vb.element
                /\ vb.body.regex # <<>>)
                   => vout = vb.body.regex[1]

-----------------------------------------------------------------------------
(* Properties of a find_latest call from start to return *)

\* Dispatching: inside the loop over the strategies
Dispatching == pc \in {"can_handle", "get_version"}

\* Aggregating: the loop is left, results is about to be looked at
Aggregating == pc = "decide"

\* Decided: the call has returned its value
Decided == pc = "returned"

\* the moves between Idle, Dispatching, Aggregating and Decided
StateOrder ==
    {<<"idle", "can_handle">>, <<"can_handle", "get_version">>,
     <<"get_version", "can_handle">>, <<"can_handle", "decide">>,
     <<"get_version", "decide">>, <<"decide", "returned">>, <<"returned", "idle">>}

\* find_latest is entered with nothing left of an earlier call
StartsAfresh ==
    (pc = "idle" /\ pc' # "idle") =>
        /\ Dispatching'
        /\ results' = <<>>
        /\ objs' = <<>>
        /\ calls' = <<>>
        /\ idx' = 1
        /\ ret' = NoReturn

\* the value is returned by the step from Aggregating to Decided only
ReturnsOnce ==
    ret' # ret =>
        \/ pc = "idle" /\ ret' = NoReturn
        \/ /\ Aggregating /\ Decided'
           /\ ret = NoReturn
           /\ ret' = ReturnNone \/ \E k \in DOMAIN objs : ret' = ReturnDict(k)

\* C21: every find_latest call, each strategy call returning or raising,
\* passes through Dispatching, then Aggregating, then Decided in that
\* order and eventually returns exactly once, with a result or None; it
\* starts with no state of an earlier call on the same UpdateFinder.
C21_CallRunsToDecided ==
    /\ [][(pc' # pc => <<pc, pc'>> \in StateOrder) /\ StartsAfresh /\ ReturnsOnce
           /\ methods' = methods]_vars
    /\ []((Dispatching \/ Aggregating) => ret = NoReturn)
    /\ [](Decided => ret # NoReturn)
    /\ (Dispatching ~> Aggregating)
    /\ (Aggregating ~> Decided)

\* a call has gone through every strategy, two of them gave a version, and
\* it has returned one of their dicts
C21_Witness ==
    /\ Decided
    /\ Len(calls) > NumMethods
    /\ Len(results) >= 2
    /\ \E k \in DOMAIN objs : ret = ReturnDict(k)

====
